---------------------------- MODULE Spec2Model ----------------------------
(***************************************************************************)
(* A model of the edge-tts Go client (package edgetts).                    *)
(*                                                                         *)
(*   Part I   the text preparer: SplitTextByByteLength and its helpers     *)
(*            (pkg/edgetts/util.go), a pure function over byte strings.    *)
(*            Specification SplitSpec draws a text and a byte budget and   *)
(*            applies the function.                                        *)
(*   Part II  the stream aggregator and the session engine: the goroutine  *)
(*            of Communicate.Stream, the goroutine of Communicate.stream,  *)
(*            their channels, the context and a consumer helper            *)
(*            (communicate.go).  Specifications Spec and FairSpec.         *)
(*                                                                         *)
(* Byte strings are sequences of byte values 0..255.  Go's 0-based slice   *)
(* indices are kept: Slice(s, lo, hi) is s[lo:hi].                         *)
(***************************************************************************)
EXTENDS Integers, Sequences, FiniteSets, TLC

VARIABLES
    \* ---- Part I: SplitTextByByteLength -------------------------------
    text,          \* the argument text, as bytes
    byteLength,    \* the argument byteLength
    result,        \* the returned [][]byte
    cuts,          \* history: the absolute offsets in text at which it was cut
    splitPc,       \* "input" before the call, "loop" in its loop, "done" after it
    textLeft,      \* textBytes of the call, while it is followed step by step
    \* ---- Part II: Communicate ---------------------------------------
    nTexts,              \* len(c.texts)
    StreamWasCalled,     \* c.state.StreamWasCalled
    OffsetCompensation,  \* c.state.OffsetCompensation
    LastDurationOffset,  \* c.state.LastDurationOffset
    PartialText,         \* c.state.PartialText, as the index of the text (0: nil)
    ctxDone,             \* the context was cancelled
    calls,               \* the number of calls of Stream so far
    \* the goroutine of the latest Stream call and its two channels
    sPc, sIdx, sHold,
    outCh, outClosed, outErr, outErrClosed,
    \* the goroutine of the latest stream (session) call, its two channels, its
    \* connection; iFrame is the frame (msgType, data) the read loop is handling
    iPc, iHold, iFrame, audioReceived, connOpen, frames,
    inCh, inClosed, inErr, inErrClosed,
    \* the consumer of the latest Stream call (StreamSync, StreamToWriter, Save)
    cPc, cChunks, cRet,
    \* history of the latest Stream call
    emitted,       \* the chunks its sessions sent, in order
    sentErrs,      \* the errors its goroutine sent
    dials,         \* the number of connections its sessions tried to open
    written,       \* the frames its latest session has written, in order
    dialDate,      \* the Date header of the response that refused the handshake of
                   \* its latest session, as Unix seconds (0: none)
    sessLog,       \* how each of its sessions left the read loop
    sessAudio,     \* the running session has sent an audio chunk
    lastRaw,       \* the last raw offset the server sent in this session (-1: none)
    rawMonotone,   \* the raw offsets were non-decreasing within each session
    cancelDuring,  \* the call during whose session the context was cancelled
    \* ---- Part III: SubMaker and the SRT composer ----------------------
    Cues,          \* sm.Cues
    CueType,       \* sm.CueType
    feedRet,       \* what the latest Feed returned: "nil" or "error" ("none": no call)
    fedTypes,      \* history: the Type of the event each stored cue came from
    srt,           \* what the latest GetSRT returned, as its blocks
    srtPc,         \* "feeding", or "composed" after GetSRT
    stampMs,       \* the argument of timeDurationToSRTTimestamp, in milliseconds
    stamp,         \* what it returned
    stampPc,       \* "input" before the call, "done" after it
    \* ---- Part IV: DRM ------------------------------------------------
    clockSkewSeconds,  \* d.clockSkewSeconds, in units of 1/UnitsPerSecond s
    wallClock,         \* time.Now().UTC().Unix(), in seconds
    drmPc,             \* per caller: "idle", or "adjust" between the two locked sections
    clientTimestamp,   \* per caller: HandleClientResponseError's clientTimestamp
    serverTimestamp,   \* per caller: HandleClientResponseError's serverTimestamp
    drmRet,            \* per caller: what its latest HandleClientResponseError returned
    drmLast,           \* history: the latest call made on the DRM
    hashed,            \* history: for each GenerateSecMSGEC call, its corrected time and
                       \* the number it hashed
    calibrated,        \* history: the server times of the calibrations since the clock
                       \* or the skew was last changed from outside
    overlapped,        \* history: two of these calibrations ran at the same time
    drmCalls,          \* the number of calls made on the DRM so far
    \* ---- Part V: ValidateTTSConfig and NewCommunicate ------------------
    newArgs,       \* what the call is given: a TTSConfig (ValidateTTSConfig), or a
                   \* text, a voice and options (NewCommunicate)
    ttsConfig,     \* the TTSConfig: the one ValidateTTSConfig is given and changes,
                   \* c.ttsConfig of the Communicate that NewCommunicate returns
    cfgErr,        \* the error the call returned ("nil": none; "none": no call yet)
    cfgPc,         \* "idle"; "validate", "validated"; "new", "returned"
    \* ---- Part VI: the frames on the wire ------------------------------
    wire,          \* msgType, data: what the latest conn.ReadMessage() returned
    body,          \* the body the read loop cut out of it (GetHeadersAndData)
    \* ---- Part VII: Stream calls that run at the same time -------------
    rPc,           \* per Stream goroutine: "none" before its call, then where it is
    rIdx,          \* per Stream goroutine: the index of its text in c.texts
    rErrs,         \* per Stream goroutine: the errors it sent on its error channel
    rDials         \* per Stream goroutine: the sessions it started

splitVars == <<text, byteLength, result, cuts, splitPc, textLeft>>
subVars == <<Cues, CueType, feedRet, fedTypes, srt, srtPc>>
stampVars == <<stampMs, stamp, stampPc>>
drmVars == <<clockSkewSeconds, wallClock, drmPc, clientTimestamp, serverTimestamp,
             drmRet, drmLast, hashed, calibrated, overlapped, drmCalls>>
cfgVars == <<newArgs, ttsConfig, cfgErr, cfgPc>>
wireVars == <<wire, body>>
raceVars == <<rPc, rIdx, rErrs, rDials>>
libVars == <<splitVars, subVars, stampVars, drmVars, cfgVars, wireVars, raceVars>>
instVars == <<nTexts, StreamWasCalled, OffsetCompensation, LastDurationOffset,
              PartialText>>
sVars == <<sPc, sIdx, sHold>>
outVars == <<outCh, outClosed, outErr, outErrClosed>>
iVars == <<iPc, iHold, iFrame, audioReceived, connOpen, frames>>
inVars == <<inCh, inClosed, inErr, inErrClosed>>
cVars == <<cPc, cChunks, cRet>>
histVars == <<emitted, sentErrs, dials, dialDate, written, sessLog, sessAudio, lastRaw, rawMonotone,
              cancelDuring>>
streamVars == <<instVars, ctxDone, calls, sVars, outVars, iVars, inVars, cVars,
                histVars>>
vars == <<libVars, streamVars>>

(***************************************************************************)
(*                       Part I.  The text preparer                        *)
(***************************************************************************)

\* Bounds of the inputs of SplitSpec.
MaxPieces == 4
MaxSmallBudget == 4
BigBudget == 17

\* s[lo:hi] of Go, for 0 <= lo <= hi <= len(s).
Slice(s, lo, hi) == SubSeq(s, lo + 1, hi)

RECURSIVE Flatten(_)
\* The concatenation of a sequence of byte strings.
Flatten(ss) == IF ss = <<>> THEN <<>> ELSE Head(ss) \o Flatten(Tail(ss))

\* The texts are built from these pieces: a run of twelve 'a', one space, one
\* newline, the entity &amp;, a ';', U+1F600 (4 bytes), a bare '&' (a text that
\* was not XML-escaped) and U+00A0 (a 2-byte white space).
Pieces ==
    { <<97, 97, 97, 97, 97, 97, 97, 97, 97, 97, 97, 97>>,
      <<32>>, <<10>>, <<38, 97, 109, 112, 59>>, <<59>>,
      <<240, 159, 152, 128>>, <<38>>, <<194, 160>> }

Texts == { Flatten(ps) : ps \in UNION { [1..n -> Pieces] : n \in 0..MaxPieces } }

Budgets == (1..MaxSmallBudget) \cup {BigBudget}

(* ------------------------- unicode/utf8 ------------------------------- *)

IsCont(b) == b >= 128 /\ b <= 191

\* The length of the well-formed UTF-8 encoding that starts at s[i] (1-based),
\* 0 when there is none: what utf8.DecodeRune accepts.
RuneLen(s, i) ==
    LET n == Len(s)
        b == s[i]
        c1 == IF i + 1 <= n THEN s[i + 1] ELSE 0
        c2 == IF i + 2 <= n THEN s[i + 2] ELSE 0
        c3 == IF i + 3 <= n THEN s[i + 3] ELSE 0
        lo == IF b = 224 THEN 160 ELSE IF b = 240 THEN 144 ELSE 128
        hi == IF b = 237 THEN 159 ELSE IF b = 244 THEN 143 ELSE 191
    IN  IF b < 128 THEN 1
        ELSE IF b >= 194 /\ b <= 223
             THEN IF IsCont(c1) THEN 2 ELSE 0
        ELSE IF b >= 224 /\ b <= 239
             THEN IF c1 >= lo /\ c1 <= hi /\ IsCont(c2) THEN 3 ELSE 0
        ELSE IF b >= 240 /\ b <= 244
             THEN IF c1 >= lo /\ c1 <= hi /\ IsCont(c2) /\ IsCont(c3) THEN 4 ELSE 0
        ELSE 0

RECURSIVE ValidFrom(_, _)
ValidFrom(s, i) ==
    IF i > Len(s) THEN TRUE
    ELSE LET k == RuneLen(s, i)
         IN  IF k = 0 THEN FALSE ELSE ValidFrom(s, i + k)

\* utf8.Valid
utf8Valid(s) == ValidFrom(s, 1)

(* ------------------------- package bytes ------------------------------ *)

\* bytes.LastIndex(s, []byte{b}): the 0-based index of the last b, or -1.
LastIndexByte(s, b) ==
    LET at == { i \in 1..Len(s) : s[i] = b }
    IN  IF at = {} THEN -1
        ELSE (CHOOSE i \in at : \A j \in at : j <= i) - 1

\* bytes.Index(s, []byte{b}): the 0-based index of the first b, or -1.
IndexByte(s, b) ==
    LET at == { i \in 1..Len(s) : s[i] = b }
    IN  IF at = {} THEN -1
        ELSE (CHOOSE i \in at : \A j \in at : i <= j) - 1

\* The white space of unicode.IsSpace, as encoded runes.
IsSpaceRune(r) ==
    \/ Len(r) = 1 /\ r[1] \in {9, 10, 11, 12, 13, 32}
    \/ Len(r) = 2 /\ r[1] = 194 /\ r[2] \in {133, 160}
    \/ Len(r) = 3 /\ r[1] = 225 /\ r[2] = 154 /\ r[3] = 128
    \/ Len(r) = 3 /\ r[1] = 226 /\ r[2] = 128
                  /\ (r[3] \in 128..138 \/ r[3] \in {168, 169, 175})
    \/ Len(r) = 3 /\ r[1] = 226 /\ r[2] = 129 /\ r[3] = 159
    \/ Len(r) = 3 /\ r[1] = 227 /\ r[2] = 128 /\ r[3] = 128

\* The number of bytes of the white-space rune s starts with, 0 when it starts
\* with none (an ill-formed byte decodes to U+FFFD, which is no space).
LeadingSpace(s) ==
    IF s = <<>> THEN 0
    ELSE LET k == RuneLen(s, 1)
         IN  IF k > 0 /\ IsSpaceRune(SubSeq(s, 1, k)) THEN k ELSE 0

\* The same for the rune s ends with (utf8.DecodeLastRune).
TrailingSpace(s) ==
    LET n == Len(s)
        ks == { k \in 1..4 : /\ k <= n
                             /\ RuneLen(s, n - k + 1) = k
                             /\ IsSpaceRune(SubSeq(s, n - k + 1, n)) }
    IN  IF ks = {} THEN 0 ELSE CHOOSE k \in ks : TRUE

RECURSIVE TrimLeft(_)
TrimLeft(s) ==
    LET k == LeadingSpace(s)
    IN  IF k = 0 THEN s ELSE TrimLeft(SubSeq(s, k + 1, Len(s)))

RECURSIVE TrimRight(_)
TrimRight(s) ==
    LET k == TrailingSpace(s)
    IN  IF k = 0 THEN s ELSE TrimRight(SubSeq(s, 1, Len(s) - k))

\* bytes.TrimSpace
TrimSpace(s) == TrimRight(TrimLeft(s))

(* --------------------------- util.go ---------------------------------- *)

\* A findLastNewlineOrSpaceWithinLimit that looks for newlines only.
findLastNewlineWithinLimit(t, limit) == LastIndexByte(Slice(t, 0, limit), 10)

\* findLastNewlineOrSpaceWithinLimit: the last newline of text[:limit], else
\* its last space, else -1.
findLastNewlineOrSpaceWithinLimit(t, limit) ==
    LET splitAt == LastIndexByte(Slice(t, 0, limit), 10)
    IN  IF splitAt < 0 THEN LastIndexByte(Slice(t, 0, limit), 32) ELSE splitAt

RECURSIVE SafePointFrom(_, _)
SafePointFrom(seg, splitAt) ==
    IF splitAt > 0
    THEN IF utf8Valid(Slice(seg, 0, splitAt)) THEN splitAt
         ELSE SafePointFrom(seg, splitAt - 1)
    ELSE splitAt

\* A findSafeUTF8SplitPoint that does not step back to a rune boundary.
findSafeUTF8SplitPointNoBackoff(textSegment) == Len(textSegment)

\* findSafeUTF8SplitPoint: the largest splitAt with textSegment[:splitAt]
\* valid UTF-8, 0 when only the empty prefix is.
findSafeUTF8SplitPoint(textSegment) == SafePointFrom(textSegment, Len(textSegment))

\* An adjustSplitPointForXMLEntity that leaves the split point where it is.
adjustSplitPointNoop(t, splitAt) == splitAt

RECURSIVE adjustSplitPointForXMLEntity(_, _)
\* adjustSplitPointForXMLEntity: while text[:splitAt] holds an '&' with no ';'
\* between it and splitAt, move splitAt back to that '&'.
adjustSplitPointForXMLEntity(t, splitAt) ==
    IF splitAt > 0 /\ LastIndexByte(Slice(t, 0, splitAt), 38) >= 0
    THEN LET ampIndex == LastIndexByte(Slice(t, 0, splitAt), 38)
         IN  IF IndexByte(Slice(t, ampIndex, splitAt), 59) # -1
             THEN splitAt
             ELSE adjustSplitPointForXMLEntity(t, ampIndex)
    ELSE splitAt

\* A split point that is used as the three searches leave it.
SplitPointAsFound(textBytes, byteLen) ==
    LET s0 == findLastNewlineOrSpaceWithinLimit(textBytes, byteLen)
        s1 == IF s0 < 0
              THEN findSafeUTF8SplitPoint(Slice(textBytes, 0, byteLen))
              ELSE s0
    IN  adjustSplitPointForXMLEntity(textBytes, s1)

\* One pass of the loop of SplitTextByByteLength: the split point chosen for
\* textBytes, which is longer than byteLen.
SplitPoint(textBytes, byteLen) ==
    LET s0 == findLastNewlineOrSpaceWithinLimit(textBytes, byteLen)
        s1 == IF s0 < 0
              THEN findSafeUTF8SplitPoint(Slice(textBytes, 0, byteLen))
              ELSE s0
        s2 == adjustSplitPointForXMLEntity(textBytes, s1)
    IN  IF s2 <= 0 THEN 1 ELSE s2

\* A loop that drops the byte at the split point from the remaining text.
RestAfterSkippingSeparator(textBytes, splitAt) ==
    Slice(textBytes, IF splitAt + 1 <= Len(textBytes) THEN splitAt + 1 ELSE splitAt,
          Len(textBytes))

\* textBytes = textBytes[splitAt:]
RestAfter(textBytes, splitAt) == Slice(textBytes, splitAt, Len(textBytes))

RECURSIVE SplitLoop(_, _, _, _, _)
\* The loop and the tail of SplitTextByByteLength.  base is the offset of
\* textBytes in the argument; the record holds the result and the offsets cut at.
SplitLoop(textBytes, byteLen, acc, cutAcc, base) ==
    IF Len(textBytes) > byteLen
    THEN LET splitAt == SplitPoint(textBytes, byteLen)
             chunk == TrimSpace(Slice(textBytes, 0, splitAt))
             rest == RestAfter(textBytes, splitAt)
         IN  SplitLoop(rest, byteLen,
                       IF Len(chunk) > 0 THEN Append(acc, chunk) ELSE acc,
                       Append(cutAcc, base + splitAt),
                       base + (Len(textBytes) - Len(rest)))
    ELSE LET remaining == TrimSpace(textBytes)
         IN  [chunks |-> IF Len(remaining) > 0 THEN Append(acc, remaining) ELSE acc,
              cuts |-> cutAcc]

\* SplitTextByByteLength(text, byteLength)
SplitTextByByteLength(t, byteLen) ==
    IF byteLen <= 0 THEN [chunks |-> <<>>, cuts |-> <<>>]
    ELSE SplitLoop(t, byteLen, <<>>, <<>>, 0)

\* A text and a budget, before the call.
SplitInputs ==
    /\ text \in Texts
    /\ byteLength \in Budgets
    /\ result = <<>>
    /\ cuts = <<>>
    /\ splitPc = "input"
    /\ textLeft = <<>>

\* The call SplitTextByByteLength(text, byteLength).
CallSplit ==
    /\ splitPc = "input"
    /\ LET r == SplitTextByByteLength(text, byteLength)
       IN  /\ result' = r.chunks
           /\ cuts' = r.cuts
    /\ splitPc' = "done"
    /\ UNCHANGED <<text, byteLength, textLeft>>
    /\ UNCHANGED <<subVars, stampVars, drmVars, cfgVars, streamVars,
                   wireVars, raceVars>>

(***************************************************************************)
(*            Part II.  The stream aggregator and the session engine       *)
(***************************************************************************)

\* Bounds of Spec.  ChanCap is the capacity of the two chunk channels, which is
\* 100 in the source (make(chan TTSChunk, 100)); the model runs it scaled down,
\* so that a session can fill a channel.
MaxTexts == 2
MaxFrames == 2
MaxCalls == 2
ChanCap == 1

\* make(chan error, 1)
ErrChanCap == 1

\* c.state.OffsetCompensation += 8_750_000
InterChunkCompensation == 8750000

\* The boundaries the server sends: <<Offset, Duration>>.
ServerBoundaries == {<<0, 1>>, <<1, 0>>}

NoChunk == [Type |-> "none", Offset |-> 0, Duration |-> 0, k |-> 0, n |-> 0]

\* A TTSChunk; k (the text it belongs to) and n (the frame of its session it
\* comes from) stand for its payload, Data or Text.
Chunk(type, offset, duration, k, n) ==
    [Type |-> type, Offset |-> offset, Duration |-> duration, k |-> k, n |-> n]

IsBoundary(ch) == ch.Type \in {"WordBoundary", "SentenceBoundary"}

(* ------------------------- inbound frames ----------------------------- *)

\* One entry of MetadataResponse.Metadata.
Entry(type, offset, duration) ==
    [Type |-> type, Offset |-> offset, Duration |-> duration]

\* A text frame: sep says whether it holds \r\n\r\n; path is its Path header;
\* meta is what json.Unmarshal makes of its body, and json says whether
\* json.Unmarshal accepts the body.
TextFrame(sep, path, meta) ==
    [kind |-> "text", ok |-> sep, path |-> path, meta |-> meta,
     ctype |-> "", bodyLen |-> 0, json |-> TRUE]

\* A text frame with a body that json.Unmarshal rejects.
TextFrameBadJSON(path) ==
    [kind |-> "text", ok |-> TRUE, path |-> path, meta |-> <<>>,
     ctype |-> "", bodyLen |-> 0, json |-> FALSE]

\* A binary frame: fits says whether it has its two length bytes and
\* header length + 2 <= len(data); path and ctype are its Path and Content-Type
\* headers, bodyLen the length of its body.
BinaryFrame(fits, path, ctype, bodyLen) ==
    [kind |-> "binary", ok |-> fits, path |-> path, meta |-> <<>>,
     ctype |-> ctype, bodyLen |-> bodyLen, json |-> TRUE]

\* No frame in hand.
NoFrame ==
    [kind |-> "none", ok |-> FALSE, path |-> "", meta |-> <<>>, ctype |-> "",
     bodyLen |-> 0, json |-> TRUE]

RECURSIVE parseFrom(_, _, _, _, _)
parseFrom(meta, i, comp, k, n) ==
    IF i > Len(meta)
    THEN [chunk |-> NoChunk, err |-> "ErrUnexpectedResponse"]
    ELSE IF meta[i].Type \in {"WordBoundary", "SentenceBoundary"}
         THEN [chunk |-> Chunk(meta[i].Type, meta[i].Offset + comp,
                               meta[i].Duration, k, n),
               err |-> "none"]
         ELSE IF meta[i].Type = "SessionEnd"
              THEN parseFrom(meta, i + 1, comp, k, n)
              ELSE [chunk |-> NoChunk, err |-> "ErrUnknownResponse"]

\* A parseMetadata that does not add the offset compensation.
parseMetadataNoCompensation(meta, comp, k, n) == parseFrom(meta, 1, 0, k, n)

\* A parseMetadata that looks at the last entry of the frame only.
parseMetadataLastEntry(meta, comp, k, n) ==
    parseFrom(meta, IF meta = <<>> THEN 1 ELSE Len(meta), comp, k, n)

\* parseMetadata: the chunk of the first boundary entry, SessionEnd entries
\* before it skipped; an error for another entry and for no boundary at all.
parseMetadata(meta, comp, k, n) == parseFrom(meta, 1, comp, k, n)

\* What the read loop of stream does with one frame:
\*   act = "emit"      send chunk on the chunk channel (audio says whether it is
\*                     an audio chunk), then read on
\*   act = "continue"  read on
\*   act = "turnEnd"   turn.end: leave the loop
\*   act = "fail"      send err on the error channel and return ("json": the
\*                     error of json.Unmarshal, which parseMetadata returns)
HandleFrame(f, comp, k, n) ==
    LET out(a, ch, e) == [act |-> a, chunk |-> ch, err |-> e]
    IN  IF f.kind = "text"
        THEN IF ~f.ok THEN out("continue", NoChunk, "none")
             ELSE IF f.path = "audio.metadata"
                  THEN LET parsed == parseMetadata(f.meta, comp, k, n)
                       IN  IF ~f.json THEN out("fail", NoChunk, "json")
                           ELSE IF parsed.err # "none"
                           THEN out("fail", NoChunk, parsed.err)
                           ELSE out("emit", parsed.chunk, "none")
             ELSE IF f.path = "turn.end" THEN out("turnEnd", NoChunk, "none")
             ELSE IF f.path \in {"response", "turn.start"}
                  THEN out("continue", NoChunk, "none")
             ELSE out("fail", NoChunk, "ErrUnknownResponse")
        ELSE IF ~f.ok THEN out("fail", NoChunk, "ErrUnexpectedResponse")
             ELSE IF f.path # "audio"
                  THEN out("fail", NoChunk, "ErrUnexpectedResponse")
             ELSE IF f.ctype \notin {"audio/mpeg", ""}
                  THEN out("fail", NoChunk, "ErrUnexpectedResponse")
             ELSE IF f.ctype = ""
                  THEN IF f.bodyLen = 0 THEN out("continue", NoChunk, "none")
                       ELSE out("fail", NoChunk, "ErrUnexpectedResponse")
             ELSE IF f.bodyLen = 0
                  THEN out("fail", NoChunk, "ErrUnexpectedResponse")
             ELSE out("emit", Chunk("audio", 0, 0, k, n), "none")

\* The frames the server sends in Spec.
BoundaryFrames ==
    { TextFrame(TRUE, "audio.metadata", <<Entry("WordBoundary", b[1], b[2])>>) :
          b \in ServerBoundaries }

\* Metadata frames with an entry of a Type the client does not know: alone,
\* after a SessionEnd entry, and after a boundary entry.
UnknownEntryFrames ==
    { TextFrame(TRUE, "audio.metadata", meta) :
          meta \in { <<Entry("Viseme", 0, 0)>>,
                     <<Entry("SessionEnd", 0, 0), Entry("Viseme", 0, 0)>>,
                     <<Entry("WordBoundary", 0, 1), Entry("Viseme", 0, 0)>> } }

ServerFrames ==
    BoundaryFrames \cup UnknownEntryFrames \cup
    { BinaryFrame(TRUE, "audio", "audio/mpeg", 1),
      TextFrame(TRUE, "response", <<>>),
      TextFrame(TRUE, "turn.end", <<>>),
      TextFrame(TRUE, "audio.metadata", <<Entry("SessionEnd", 0, 0)>>),
      TextFrame(TRUE, "unknown", <<>>),
      BinaryFrame(TRUE, "other", "audio/mpeg", 1) }

(* ------------------------------ Init ---------------------------------- *)

\* The state NewCommunicate leaves, before any call of Stream.
StreamIdle ==
    /\ StreamWasCalled = FALSE
    /\ OffsetCompensation = 0
    /\ LastDurationOffset = 0
    /\ PartialText = 0
    /\ ctxDone = FALSE
    /\ calls = 0
    /\ sPc = "none" /\ sIdx = 0 /\ sHold = NoChunk
    /\ outCh = <<>> /\ outClosed = FALSE /\ outErr = <<>> /\ outErrClosed = FALSE
    /\ iPc = "none" /\ iHold = NoChunk /\ iFrame = NoFrame /\ audioReceived = FALSE
    /\ connOpen = FALSE /\ frames = 0
    /\ inCh = <<>> /\ inClosed = FALSE /\ inErr = <<>> /\ inErrClosed = FALSE
    /\ cPc = "none" /\ cChunks = <<>> /\ cRet = "none"
    /\ emitted = <<>> /\ sentErrs = <<>> /\ dials = 0 /\ dialDate = 0 /\ sessLog = <<>>
    /\ written = <<>>
    /\ sessAudio = FALSE
    /\ lastRaw = -1 /\ rawMonotone = TRUE /\ cancelDuring = 0

SplitIdle ==
    /\ text = <<>>
    /\ byteLength = 1
    /\ result = <<>>
    /\ cuts = <<>>
    /\ splitPc = "idle"
    /\ textLeft = <<>>

\* The state NewSubMaker leaves: no cue, no cue kind.
SubIdle ==
    /\ Cues = <<>>
    /\ CueType = ""
    /\ feedRet = "none"
    /\ fedTypes = <<>>
    /\ srt = <<>>
    /\ srtPc = "feeding"

StampIdle ==
    /\ stampMs = 0
    /\ stamp = <<>>
    /\ stampPc = "idle"

\* The goroutines that call the DRM in DrmSpec.
MaxCallers == 2

Callers == 1..MaxCallers

\* var globalDRM = &DRM{}: no skew, and no call in progress.
DrmFresh ==
    /\ clockSkewSeconds = 0
    /\ drmPc = [p \in Callers |-> "idle"]
    /\ clientTimestamp = [p \in Callers |-> 0]
    /\ serverTimestamp = [p \in Callers |-> 0]
    /\ drmRet = [p \in Callers |-> "none"]
    /\ drmLast = [op |-> "none", caller |-> 0, resp |-> "none"]
    /\ hashed = {}
    /\ calibrated = {}
    /\ overlapped = FALSE
    /\ drmCalls = 0

DrmIdle ==
    /\ DrmFresh
    /\ wallClock = 0

\* No TTSConfig: NewCommunicate returned no instance, or was not called.
NoConfig == [Voice |-> <<>>, Rate |-> <<>>, Volume |-> <<>>, Pitch |-> <<>>]

ConfigIdle ==
    /\ newArgs = NoConfig
    /\ ttsConfig = NoConfig
    /\ cfgErr = "none"
    /\ cfgPc = "idle"

\* No message read yet.
NoWire == [msgType |-> "none", data |-> <<>>]

WireIdle ==
    /\ wire = NoWire
    /\ body = <<>>

\* The Stream goroutines of RaceSpec.
MaxRacers == 2

Racers == 1..MaxRacers

\* No Stream call of RaceSpec made.
RaceIdle ==
    /\ rPc = [g \in Racers |-> "none"]
    /\ rIdx = [g \in Racers |-> 0]
    /\ rErrs = [g \in Racers |-> <<>>]
    /\ rDials = [g \in Racers |-> 0]

Init ==
    /\ nTexts \in 0..MaxTexts
    /\ StreamIdle
    /\ SplitIdle
    /\ SubIdle
    /\ StampIdle
    /\ DrmIdle
    /\ ConfigIdle
    /\ WireIdle
    /\ RaceIdle

(* ------------------- Communicate.Stream: the call --------------------- *)

\* A caller (StreamSync, StreamToWriter, Save, handleSynthesizeWithSRT) calls
\* c.Stream(ctx): two fresh channels, a new goroutine, and the caller enters
\* its receive loop.  In Spec a call is made once the goroutines of the call
\* before it have ended and its caller has returned.
CallStream ==
    /\ calls < MaxCalls
    /\ sPc \in {"none", "done"}
    /\ iPc \in {"none", "exited"}
    /\ cPc \in {"none", "returned"}
    /\ calls' = calls + 1
    /\ sPc' = "check" /\ sIdx' = 0 /\ sHold' = NoChunk
    /\ outCh' = <<>> /\ outClosed' = FALSE
    /\ outErr' = <<>> /\ outErrClosed' = FALSE
    /\ cPc' = "recv" /\ cChunks' = <<>> /\ cRet' = "none"
    /\ emitted' = <<>> /\ sentErrs' = <<>> /\ dials' = 0 /\ dialDate' = 0 /\ sessLog' = <<>>
    /\ written' = <<>>
    /\ sessAudio' = FALSE
    /\ lastRaw' = -1 /\ rawMonotone' = TRUE /\ cancelDuring' = 0
    /\ UNCHANGED <<instVars, ctxDone, iVars, inVars, libVars>>

(* ----------------- Communicate.Stream: the goroutine ------------------ *)

\* The goroutine of Stream returns: its deferred close(errCh) and
\* close(chunkCh) run, in this order.  Neither blocks, and no other goroutine
\* tells the state between them from the state before or after, so they are
\* part of the returning step.
StreamReturns ==
    /\ outErrClosed' = TRUE
    /\ outClosed' = TRUE
    /\ sPc' = "done"

\* The goroutine of Stream sends e on its error channel and returns.
StreamFail(e) ==
    /\ Len(outErr) < ErrChanCap
    /\ outErr' = Append(outErr, e)
    /\ sentErrs' = Append(sentErrs, e)
    /\ StreamReturns

\* if c.state.StreamWasCalled { errCh <- ErrStreamAlreadyCalled; return }
StreamCheck ==
    /\ sPc = "check"
    /\ IF StreamWasCalled
       THEN /\ StreamFail("ErrStreamAlreadyCalled")
            /\ UNCHANGED outCh
       ELSE /\ sPc' = "set"
            /\ UNCHANGED <<outVars, sentErrs>>
    /\ UNCHANGED <<instVars, ctxDone, calls, sIdx, sHold, iVars, inVars, cVars,
                   emitted, dials, dialDate, written, sessLog, sessAudio, lastRaw, rawMonotone, cancelDuring,
                   libVars>>

\* A Stream that goes on without recording that it was called.
StreamSetFlagForgotten ==
    /\ sPc = "set"
    /\ sPc' = "for"
    /\ sIdx' = 1
    /\ UNCHANGED <<instVars, ctxDone, calls, sHold, outVars, iVars, inVars, cVars,
                   histVars, libVars>>

\* c.state.StreamWasCalled = true
StreamSetFlag ==
    /\ sPc = "set"
    /\ StreamWasCalled' = TRUE
    /\ sPc' = "for"
    /\ sIdx' = 1
    /\ UNCHANGED <<nTexts, OffsetCompensation, LastDurationOffset, PartialText,
                   ctxDone, calls, sHold, outVars, iVars, inVars, cVars,
                   histVars, libVars>>

\* for _, text := range c.texts { c.state.PartialText = text;
\*     innerChunkCh, innerErrCh := c.stream(ctx) ... }
\* The call of stream makes the two inner channels and starts the session
\* goroutine; after the last text the goroutine of Stream returns.
StreamFor ==
    /\ sPc = "for"
    /\ IF sIdx > nTexts
       THEN /\ StreamReturns
            /\ UNCHANGED <<PartialText, iVars, inVars, sessAudio, lastRaw, written>>
       ELSE /\ PartialText' = sIdx
            /\ inCh' = <<>> /\ inClosed' = FALSE
            /\ inErr' = <<>> /\ inErrClosed' = FALSE
            /\ iPc' = "dial" /\ iHold' = NoChunk /\ iFrame' = NoFrame /\ connOpen' = FALSE
            /\ frames' = 0
            /\ sessAudio' = FALSE
            /\ lastRaw' = -1
            /\ written' = <<>>
            /\ sPc' = "select"
            /\ UNCHANGED <<audioReceived, outClosed, outErrClosed>>
    /\ UNCHANGED <<nTexts, StreamWasCalled, OffsetCompensation, LastDurationOffset,
                   ctxDone, calls, sIdx, sHold, outCh, outErr, cVars, emitted,
                   sentErrs, dials, dialDate, sessLog, rawMonotone, cancelDuring, libVars>>

\* case chunk, ok := <-innerChunkCh, with ok: a chunk is received.
StreamRecvChunk ==
    /\ sPc = "select"
    /\ inCh # <<>>
    /\ sHold' = Head(inCh)
    /\ inCh' = Tail(inCh)
    /\ sPc' = "send"
    /\ UNCHANGED <<instVars, ctxDone, calls, sIdx, outVars, iVars, inClosed, inErr,
                   inErrClosed, cVars, histVars, libVars>>

\* A forwarding send that gives the chunk up when the channel is full.
StreamSendChunkOrDrop ==
    /\ sPc = "send"
    /\ outCh' = IF Len(outCh) < ChanCap THEN Append(outCh, sHold) ELSE outCh
    /\ sHold' = NoChunk
    /\ sPc' = "select"
    /\ UNCHANGED <<instVars, ctxDone, calls, sIdx, outClosed, outErr, outErrClosed,
                   iVars, inVars, cVars, histVars, libVars>>

\* chunkCh <- chunk: blocks while the channel is full.
StreamSendChunk ==
    /\ sPc = "send"
    /\ Len(outCh) < ChanCap
    /\ outCh' = Append(outCh, sHold)
    /\ sHold' = NoChunk
    /\ sPc' = "select"
    /\ UNCHANGED <<instVars, ctxDone, calls, sIdx, outClosed, outErr, outErrClosed,
                   iVars, inVars, cVars, histVars, libVars>>

\* case chunk, ok := <-innerChunkCh, with !ok: the inner chunk channel is
\* closed and empty; break loop.
StreamInnerClosed ==
    /\ sPc = "select"
    /\ inCh = <<>>
    /\ inClosed
    /\ sPc' = "postCheck"
    /\ UNCHANGED <<instVars, ctxDone, calls, sIdx, sHold, outVars, iVars, inVars,
                   cVars, histVars, libVars>>

\* case err, ok := <-innerErrCh, with ok && err != nil: forward it and return.
\* (With the inner error channel closed and empty the case changes nothing and
\* the select is taken again.)
StreamRecvErr ==
    /\ sPc = "select"
    /\ inErr # <<>>
    /\ StreamFail(Head(inErr))
    /\ inErr' = Tail(inErr)
    /\ UNCHANGED <<instVars, ctxDone, calls, sIdx, sHold, outCh, iVars, inCh,
                   inClosed, inErrClosed, cVars, emitted, dials, dialDate, written, sessLog, sessAudio, lastRaw,
                   rawMonotone, cancelDuring, libVars>>

\* A Stream that returns on cancellation without reporting it.
StreamCtxDoneSilent ==
    /\ sPc = "select"
    /\ ctxDone
    /\ StreamReturns
    /\ UNCHANGED <<instVars, ctxDone, calls, sIdx, sHold, outCh, outErr, iVars,
                   inVars, cVars, histVars, libVars>>

\* case <-ctx.Done(): errCh <- ctx.Err(); return
StreamCtxDone ==
    /\ sPc = "select"
    /\ ctxDone
    /\ StreamFail("ctx")
    /\ UNCHANGED <<instVars, ctxDone, calls, sIdx, sHold, outCh, iVars, inVars,
                   cVars, emitted, dials, dialDate, written, sessLog, sessAudio, lastRaw, rawMonotone,
                   cancelDuring, libVars>>

\* A Stream that goes on to the next text without the check after the loop.
StreamPostCheckSkipped ==
    /\ sPc = "postCheck"
    /\ sIdx' = sIdx + 1
    /\ sPc' = "for"
    /\ UNCHANGED <<instVars, ctxDone, calls, sHold, outVars, iVars, inVars, cVars,
                   histVars, libVars>>

\* After the loop: select { case err := <-innerErrCh: ...; default: }, then the
\* next text.
StreamPostCheck ==
    /\ sPc = "postCheck"
    /\ IF inErr # <<>>
       THEN /\ StreamFail(Head(inErr))
            /\ inErr' = Tail(inErr)
            /\ UNCHANGED sIdx
       ELSE /\ sIdx' = sIdx + 1
            /\ sPc' = "for"
            /\ UNCHANGED <<inErr, outErr, outClosed, outErrClosed, sentErrs>>
    /\ UNCHANGED <<instVars, ctxDone, calls, sHold, outCh, iVars, inCh, inClosed,
                   inErrClosed, cVars, emitted, dials, dialDate, written, sessLog, sessAudio, lastRaw,
                   rawMonotone, cancelDuring, libVars>>

(* ---------------- Communicate.stream: the session goroutine ----------- *)

\* A session goroutine that returns without closing its chunk channel.
SessionReturnsChunksOpen ==
    /\ connOpen' = FALSE
    /\ inErrClosed' = TRUE
    /\ inClosed' = inClosed
    /\ iPc' = "exited"

\* The session goroutine returns: its deferred conn.Close() (once the dial
\* succeeded), close(errCh) and close(chunkCh) run, in this order, as part of
\* the returning step.
SessionReturns ==
    /\ connOpen' = FALSE
    /\ inErrClosed' = TRUE
    /\ inClosed' = TRUE
    /\ iPc' = "exited"

\* The session goroutine sends e on its error channel and returns.
SessionFail(e) ==
    /\ Len(inErr) < ErrChanCap
    /\ inErr' = Append(inErr, e)
    /\ sessLog' = Append(sessLog, [k |-> PartialText, how |-> "fail",
                                   audio |-> sessAudio, err |-> e])
    /\ UNCHANGED sessAudio
    /\ SessionReturns

\* The Date header of the response with which the server refuses a handshake,
\* as Unix seconds; 0: the response has no Date header, or there is no response.
HandshakeDates == {0, 300}

\* conn, _, err := dialer.DialContext(ctx, wsURL, headers): fails with the
\* context's error when the context is done, and may fail otherwise, the
\* server refusing the handshake; the response DialContext returns with the
\* error is discarded, and either error is sent wrapped
\* ("websocket dial error: %w").
SessionDial ==
    /\ iPc = "dial"
    /\ dials' = dials + 1
    /\ \/ /\ ~ctxDone
          /\ connOpen' = TRUE
          /\ iPc' = "writeConfig"
          /\ UNCHANGED <<inErr, inClosed, inErrClosed, sessLog, sessAudio, dialDate>>
       \/ /\ ~ctxDone
          /\ dialDate' \in HandshakeDates
          /\ SessionFail("dial")
       \/ /\ ctxDone
          /\ SessionFail("dial: ctx")
          /\ UNCHANGED dialDate
    /\ UNCHANGED <<instVars, ctxDone, calls, sVars, outVars, iHold, iFrame, audioReceived,
                   frames, inCh, cVars, emitted, sentErrs, lastRaw, rawMonotone,
                   cancelDuring, written, libVars>>

\* A write of the config frame whose error is not looked at.
SessionWriteConfigUnchecked ==
    /\ iPc = "writeConfig"
    /\ iPc' = "writeSSML"
    /\ written' \in {written, Append(written, "config")}
    /\ UNCHANGED <<instVars, ctxDone, calls, sVars, outVars, iHold, iFrame, audioReceived,
                   connOpen, frames, inVars, cVars, emitted, sentErrs, dials, dialDate,
                   sessLog, sessAudio, lastRaw, rawMonotone, cancelDuring, libVars>>

\* if err := conn.WriteMessage(websocket.TextMessage, []byte(configMsg)); err != nil
\* { errCh <- fmt.Errorf("write config error: %w", err); return }
SessionWriteConfig ==
    /\ iPc = "writeConfig"
    /\ \/ /\ iPc' = "writeSSML"
          /\ written' = Append(written, "config")
          /\ UNCHANGED <<connOpen, inErr, inClosed, inErrClosed, sessLog, sessAudio>>
       \/ /\ SessionFail("writeConfig")
          /\ UNCHANGED written
    /\ UNCHANGED <<instVars, ctxDone, calls, sVars, outVars, iHold, iFrame, audioReceived,
                   frames, inCh, cVars, emitted, sentErrs, dials, dialDate, lastRaw,
                   rawMonotone, cancelDuring, libVars>>

\* An audioReceived that outlives the session.
KeptAudioReceived(prev) == prev

\* audioReceived := false
FreshAudioReceived(prev) == FALSE

\* conn.WriteMessage(websocket.TextMessage, []byte(ssmlMsg)), and on success
\* the entry into the read loop.
SessionWriteSSML ==
    /\ iPc = "writeSSML"
    /\ \/ /\ iPc' = "loop"
          /\ written' = Append(written, "ssml")
          /\ audioReceived' = FreshAudioReceived(audioReceived)
          /\ UNCHANGED <<connOpen, inErr, inClosed, inErrClosed, sessLog, sessAudio>>
       \/ /\ SessionFail("writeSSML")
          /\ UNCHANGED <<audioReceived, written>>
    /\ UNCHANGED <<instVars, ctxDone, calls, sVars, outVars, iHold, iFrame, frames, inCh,
                   cVars, emitted, sentErrs, dials, dialDate, lastRaw, rawMonotone,
                   cancelDuring, libVars>>

\* select { case <-ctx.Done(): errCh <- ctx.Err(); return; default: }
SessionLoopTop ==
    /\ iPc = "loop"
    /\ IF ctxDone
       THEN SessionFail("ctx")
       ELSE /\ iPc' = "read"
            /\ UNCHANGED <<connOpen, inErr, inClosed, inErrClosed, sessLog, sessAudio>>
    /\ UNCHANGED <<instVars, ctxDone, calls, sVars, outVars, iHold, iFrame, audioReceived,
                   frames, inCh, cVars, emitted, sentErrs, dials, dialDate, written, lastRaw,
                   rawMonotone, cancelDuring, libVars>>

\* done: if !audioReceived { errCh <- ErrNoAudioReceived }, and the return.
LeaveLoop(how) ==
    LET e == IF audioReceived THEN "none" ELSE "ErrNoAudioReceived"
    IN  /\ inErr' = IF e = "none" THEN inErr ELSE Append(inErr, e)
        /\ sessLog' = Append(sessLog, [k |-> PartialText, how |-> how,
                                       audio |-> sessAudio, err |-> e])
        /\ UNCHANGED sessAudio
        /\ SessionReturns

\* A turn.end that leaves the offset compensation as it is.
CompensationUnchanged(comp, last) == comp

\* c.state.OffsetCompensation = c.state.LastDurationOffset
\* c.state.OffsetCompensation += 8_750_000
CompensationAfterTurnEnd(comp, last) == last + InterChunkCompensation

\* conn.ReadMessage() returned the frame f.
SessionReadFrame(f) ==
    LET o == HandleFrame(f, OffsetCompensation, PartialText, frames + 1)
        raw == o.chunk.Offset - OffsetCompensation
    IN  \/ /\ o.act = "emit"
           /\ frames < MaxFrames
           /\ frames' = frames + 1
           /\ iHold' = o.chunk
           /\ iFrame' = f
           /\ audioReceived' = IF o.chunk.Type = "audio" THEN TRUE
                               ELSE audioReceived
           /\ lastRaw' = IF IsBoundary(o.chunk) THEN raw ELSE lastRaw
           /\ rawMonotone' = IF IsBoundary(o.chunk) /\ raw < lastRaw THEN FALSE
                             ELSE rawMonotone
           /\ iPc' = "send"
           /\ UNCHANGED <<OffsetCompensation, connOpen, inErr, inClosed,
                          inErrClosed, sessLog, sessAudio>>
        \/ /\ o.act = "continue"
           /\ frames < MaxFrames
           /\ frames' = frames + 1
           /\ iPc' = "loop"
           /\ UNCHANGED <<OffsetCompensation, iHold, iFrame, audioReceived, connOpen,
                          inErr, inClosed, inErrClosed, sessLog, sessAudio, lastRaw,
                          rawMonotone>>
        \/ /\ o.act = "turnEnd"
           /\ OffsetCompensation' =
                  CompensationAfterTurnEnd(OffsetCompensation, LastDurationOffset)
           /\ LeaveLoop("turnEnd")
           /\ iFrame' = f
           /\ UNCHANGED <<iHold, audioReceived, frames, lastRaw, rawMonotone>>
        \/ /\ o.act = "fail"
           /\ SessionFail(o.err)
           /\ iFrame' = f
           /\ UNCHANGED <<OffsetCompensation, iHold, audioReceived, frames,
                          lastRaw, rawMonotone>>

\* conn.ReadMessage(): a frame of the server, the server's normal closure
\* (websocket.CloseNormalClosure: break), or another read error, the receive
\* deadline among them.
SessionRead ==
    /\ iPc = "read"
    /\ \/ \E f \in ServerFrames : SessionReadFrame(f)
       \/ /\ LeaveLoop("closeNormal")
          /\ UNCHANGED <<OffsetCompensation, iHold, iFrame, audioReceived, frames,
                         lastRaw, rawMonotone>>
       \/ /\ SessionFail("read")
          /\ UNCHANGED <<OffsetCompensation, iHold, iFrame, audioReceived, frames,
                         lastRaw, rawMonotone>>
    /\ UNCHANGED <<nTexts, StreamWasCalled, LastDurationOffset, PartialText,
                   ctxDone, calls, sVars, outVars, inCh, cVars, emitted, sentErrs,
                   dials, dialDate, written, cancelDuring, libVars>>

\* chunkCh <- *parsed; c.state.LastDurationOffset = parsed.Offset + parsed.Duration
\* and chunkCh <- TTSChunk{Type: "audio", Data: body}: block while the inner
\* chunk channel is full.
SessionSend ==
    /\ iPc = "send"
    /\ Len(inCh) < ChanCap
    /\ inCh' = Append(inCh, iHold)
    /\ emitted' = Append(emitted, iHold)
    /\ LastDurationOffset' = IF IsBoundary(iHold)
                             THEN iHold.Offset + iHold.Duration
                             ELSE LastDurationOffset
    /\ sessAudio' = (sessAudio \/ iHold.Type = "audio")
    /\ iHold' = NoChunk
    /\ iFrame' = NoFrame
    /\ iPc' = "loop"
    /\ UNCHANGED <<nTexts, StreamWasCalled, OffsetCompensation, PartialText,
                   ctxDone, calls, sVars, outVars, audioReceived, connOpen, frames,
                   inClosed, inErr, inErrClosed, cVars, sentErrs, dials, dialDate, written, sessLog,
                   lastRaw, rawMonotone, cancelDuring, libVars>>

(* ------------- the consumer: the select of the helpers ---------------- *)

\* case chunk, ok := <-chunkCh, with ok: the chunk is kept (StreamSync) or
\* written (StreamToWriter, Save).
ConsumerRecvChunk ==
    /\ cPc = "recv"
    /\ outCh # <<>>
    /\ cChunks' = Append(cChunks, Head(outCh))
    /\ outCh' = Tail(outCh)
    /\ UNCHANGED <<instVars, ctxDone, calls, sVars, outClosed, outErr, outErrClosed,
                   iVars, inVars, cPc, cRet, histVars, libVars>>

\* The same case in StreamToWriter and Save, when w.Write fails: return err.
ConsumerWriteFails ==
    /\ cPc = "recv"
    /\ outCh # <<>>
    /\ Head(outCh).Type = "audio"
    /\ cChunks' = Append(cChunks, Head(outCh))
    /\ outCh' = Tail(outCh)
    /\ cRet' = "write"
    /\ cPc' = "returned"
    /\ UNCHANGED <<instVars, ctxDone, calls, sVars, outClosed, outErr, outErrClosed,
                   iVars, inVars, histVars, libVars>>

\* case chunk, ok := <-chunkCh, with !ok: return nil.
ConsumerChunkClosed ==
    /\ cPc = "recv"
    /\ outCh = <<>>
    /\ outClosed
    /\ cRet' = "nil"
    /\ cPc' = "returned"
    /\ UNCHANGED <<instVars, ctxDone, calls, sVars, outVars, iVars, inVars, cChunks,
                   histVars, libVars>>

\* case err := <-errCh, with err != nil: return err.  (On the closed and empty
\* error channel the case yields nil and the select is taken again.)
ConsumerRecvErr ==
    /\ cPc = "recv"
    /\ outErr # <<>>
    /\ cRet' = Head(outErr)
    /\ outErr' = Tail(outErr)
    /\ cPc' = "returned"
    /\ UNCHANGED <<instVars, ctxDone, calls, sVars, outCh, outClosed, outErrClosed,
                   iVars, inVars, cChunks, histVars, libVars>>

\* case <-ctx.Done(): return ctx.Err()
ConsumerCtxDone ==
    /\ cPc = "recv"
    /\ ctxDone
    /\ cRet' = "ctx"
    /\ cPc' = "returned"
    /\ UNCHANGED <<instVars, ctxDone, calls, sVars, outVars, iVars, inVars, cChunks,
                   histVars, libVars>>

(* --------------------------- the context ------------------------------ *)

\* The session goroutine is between its start and its return.
SessionRunning ==
    iPc \in {"dial", "writeConfig", "writeSSML", "loop", "read", "send"}

\* The context is cancelled (or its deadline passes).
Cancel ==
    /\ ~ctxDone
    /\ ctxDone' = TRUE
    /\ cancelDuring' = IF sPc \in {"select", "send"} /\ SessionRunning
                       THEN calls ELSE 0
    /\ UNCHANGED <<instVars, calls, sVars, outVars, iVars, inVars, cVars, emitted,
                   sentErrs, dials, dialDate, written, sessLog, sessAudio, lastRaw, rawMonotone, libVars>>

(* ------------------------- specifications ----------------------------- *)

StreamStep ==
    \/ StreamCheck
    \/ StreamSetFlag
    \/ StreamFor
    \/ StreamRecvChunk
    \/ StreamSendChunk
    \/ StreamInnerClosed
    \/ StreamRecvErr
    \/ StreamCtxDone
    \/ StreamPostCheck

SessionStep ==
    \/ SessionDial
    \/ SessionWriteConfig
    \/ SessionWriteSSML
    \/ SessionLoopTop
    \/ SessionRead
    \/ SessionSend

ConsumerStep ==
    \/ ConsumerRecvChunk
    \/ ConsumerWriteFails
    \/ ConsumerChunkClosed
    \/ ConsumerRecvErr
    \/ ConsumerCtxDone

Next ==
    \/ CallStream
    \/ StreamStep
    \/ SessionStep
    \/ ConsumerStep
    \/ Cancel

\* One Communicate, its Stream calls one after the other.
Spec == Init /\ [][Next]_vars

\* Spec with every goroutine that can run running in the end: the goroutine of
\* Stream, the session goroutine (a read returns, by the receive deadline at
\* the latest) and the consumer.
FairSpec ==
    /\ Spec
    /\ WF_vars(StreamStep)
    /\ WF_vars(SessionStep)
    /\ WF_vars(ConsumerStep)

(* -------- a call that the server serves and the consumer drains -------- *)

\* The first Stream call on the Communicate.
ServedCall == CallStream /\ ~StreamWasCalled

\* The handshake succeeds.
ServedDial == SessionDial /\ connOpen'

\* The two writes succeed.
ServedWriteConfig == SessionWriteConfig /\ iPc' = "writeSSML"

ServedWriteSSML == SessionWriteSSML /\ iPc' = "loop"

\* The session ended on the latest step, and it ended on a turn.end after audio.
EndsOnTurnEnd ==
    iPc' = "exited" =>
        /\ sessLog' # <<>>
        /\ sessLog'[Len(sessLog')].how = "turnEnd"
        /\ sessLog'[Len(sessLog')].err = "none"

\* The server sends frames the session accepts, a frame with audio among the
\* MaxFrames first of them, and turn.end after the audio; it neither closes
\* the connection nor lets the receive deadline pass.
ServedRead ==
    /\ SessionRead
    /\ EndsOnTurnEnd
    /\ frames' = MaxFrames => audioReceived'

ServedStreamStep ==
    \/ StreamCheck
    \/ StreamSetFlag
    \/ StreamFor
    \/ StreamRecvChunk
    \/ StreamSendChunk
    \/ StreamInnerClosed
    \/ StreamPostCheck

ServedSessionStep ==
    \/ ServedDial
    \/ ServedWriteConfig
    \/ ServedWriteSSML
    \/ SessionLoopTop
    \/ ServedRead
    \/ SessionSend

\* The consumer keeps receiving: its writer does not fail.
ServedConsumerStep ==
    \/ ConsumerRecvChunk
    \/ ConsumerChunkClosed

ServedNext ==
    \/ ServedCall
    \/ ServedStreamStep
    \/ ServedSessionStep
    \/ ServedConsumerStep

\* One Stream call whose context is not cancelled, served by such a server and
\* drained by such a consumer, every goroutine that can run running in the end.
ServedSpec ==
    /\ Init
    /\ [][ServedNext]_vars
    /\ WF_vars(ServedStreamStep)
    /\ WF_vars(ServedSessionStep)
    /\ WF_vars(ServedConsumerStep)

\* SplitTextByByteLength alone, on every text and budget of the bounds.
SplitInit ==
    /\ nTexts = 0
    /\ StreamIdle
    /\ SubIdle
    /\ StampIdle
    /\ DrmIdle
    /\ ConfigIdle
    /\ WireIdle
    /\ RaceIdle
    /\ SplitInputs

SplitNext == CallSplit

SplitSpec == SplitInit /\ [][SplitNext]_vars

(* ----------- SplitTextByByteLength, one loop pass at a time ----------- *)

\* Bound of LoopSpec: the pieces of its texts.
MaxLoopPieces == 3

LoopTexts == { Flatten(ps) : ps \in UNION { [1..n -> Pieces] : n \in 0..MaxLoopPieces } }

\* The budgets of LoopSpec: a negative one, 0, the small ones of SplitSpec and
\* two more, in which the entity &amp; fits.
LoopBudgets == (-1)..(MaxSmallBudget + 2)

\* SplitTextByByteLength is called with a text and a budget.
SplitCalled ==
    /\ splitPc = "idle"
    /\ text' \in LoopTexts
    /\ byteLength' \in LoopBudgets
    /\ splitPc' = "input"
    /\ UNCHANGED <<result, cuts, textLeft>>
    /\ UNCHANGED <<subVars, stampVars, drmVars, cfgVars, streamVars,
                   wireVars, raceVars>>

\* if byteLength <= 0 { return nil }; textBytes := []byte(text)
SplitEnter ==
    /\ splitPc = "input"
    /\ IF byteLength <= 0
       THEN /\ splitPc' = "done"
            /\ UNCHANGED textLeft
       ELSE /\ splitPc' = "loop"
            /\ textLeft' = text
    /\ UNCHANGED <<text, byteLength, result, cuts>>
    /\ UNCHANGED <<subVars, stampVars, drmVars, cfgVars, streamVars,
                   wireVars, raceVars>>

\* One pass of for len(textBytes) > byteLength { ... }
SplitPass ==
    /\ splitPc = "loop"
    /\ Len(textLeft) > byteLength
    /\ LET splitAt == SplitPoint(textLeft, byteLength)
           chunk == TrimSpace(Slice(textLeft, 0, splitAt))
       IN  /\ result' = IF Len(chunk) > 0 THEN Append(result, chunk) ELSE result
           /\ cuts' = Append(cuts, (Len(text) - Len(textLeft)) + splitAt)
           /\ textLeft' = RestAfter(textLeft, splitAt)
    /\ UNCHANGED <<text, byteLength, splitPc>>
    /\ UNCHANGED <<subVars, stampVars, drmVars, cfgVars, streamVars,
                   wireVars, raceVars>>

\* The loop is left: remaining := bytes.TrimSpace(textBytes), and the return.
SplitTail ==
    /\ splitPc = "loop"
    /\ Len(textLeft) <= byteLength
    /\ LET remaining == TrimSpace(textLeft)
       IN  result' = IF Len(remaining) > 0 THEN Append(result, remaining) ELSE result
    /\ splitPc' = "done"
    /\ UNCHANGED <<text, byteLength, cuts, textLeft>>
    /\ UNCHANGED <<subVars, stampVars, drmVars, cfgVars, streamVars,
                   wireVars, raceVars>>

LoopInit ==
    /\ nTexts = 0
    /\ StreamIdle
    /\ SubIdle
    /\ StampIdle
    /\ DrmIdle
    /\ ConfigIdle
    /\ WireIdle
    /\ RaceIdle
    /\ SplitIdle

LoopNext == SplitCalled \/ SplitEnter \/ SplitPass \/ SplitTail

\* In the loop a pass or the tail can always be taken, and changes cuts or
\* splitPc: ENABLED <<SplitPass \/ SplitTail>>_vars is splitPc = "loop".
PassOrTailEnabled == splitPc = "loop" => ENABLED <<SplitPass \/ SplitTail>>_vars

\* WF_vars(SplitPass \/ SplitTail), with that enabling condition written out.
LoopKeepsRunning ==
    \/ []<>(splitPc # "loop")
    \/ []<><<SplitPass \/ SplitTail>>_vars

\* SplitTextByByteLength followed pass by pass; a call that was made keeps
\* running.
LoopSpec ==
    /\ LoopInit
    /\ [][LoopNext]_vars
    /\ WF_vars(SplitEnter)
    /\ LoopKeepsRunning

\* The longest run of 'b' in ScenarioSpec.
MaxRun == 12

\* n bytes "b".
RunOfB(n) == [i \in 1..n |-> 98]

\* The text "a", one space, then n bytes "b".
ScenarioText(n) == <<97, 32>> \o RunOfB(n)

\* SplitTextByByteLength on "a", one space and n bytes "b", with a budget
\* smaller than n.
ScenarioInit ==
    /\ nTexts = 0
    /\ StreamIdle
    /\ SubIdle
    /\ StampIdle
    /\ DrmIdle
    /\ ConfigIdle
    /\ WireIdle
    /\ RaceIdle
    /\ \E n \in 2..MaxRun :
           /\ text = ScenarioText(n)
           /\ byteLength \in 1..(n - 1)
    /\ result = <<>>
    /\ cuts = <<>>
    /\ splitPc = "input"
    /\ textLeft = <<>>

ScenarioSpec == ScenarioInit /\ [][SplitNext]_vars

(***************************************************************************)
(*              Part III.  SubMaker and the SRT composer                   *)
(***************************************************************************)

\* Bound of SubSpec: the cues a SubMaker is fed.
MaxCues == 3

\* Go's integer division and remainder, which truncate toward zero (b > 0).
GoDiv(a, b) == IF a >= 0 THEN a \div b ELSE -((-a) \div b)

GoMod(a, b) == a - b * GoDiv(a, b)

(* ---------------------------- srt.go ---------------------------------- *)

\* A Subtitle.  Start and End are in microseconds.
Subtitle(index, start, end, content) ==
    [Index |-> index, Start |-> start, End |-> end, Content |-> content]

RECURSIVE TrimNewlinesLeft(_)
TrimNewlinesLeft(s) ==
    IF s # <<>> /\ Head(s) = 10 THEN TrimNewlinesLeft(Tail(s)) ELSE s

RECURSIVE TrimNewlinesRight(_)
TrimNewlinesRight(s) ==
    IF s # <<>> /\ s[Len(s)] = 10
    THEN TrimNewlinesRight(SubSeq(s, 1, Len(s) - 1))
    ELSE s

\* strings.Trim(content, "\n")
TrimNewlines(s) == TrimNewlinesRight(TrimNewlinesLeft(s))

\* strings.Contains(content, "\n\n")
HasNewlineRun(s) == \E i \in 1..(Len(s) - 1) : s[i] = 10 /\ s[i + 1] = 10

RECURSIVE CollapseNewlines(_)
\* multiWSRegex.ReplaceAllString(content, "\n"): every run of two or more
\* newlines becomes one newline.
CollapseNewlines(s) ==
    IF Len(s) < 2 THEN s
    ELSE IF s[1] = 10 /\ s[2] = 10 THEN CollapseNewlines(Tail(s))
    ELSE <<Head(s)>> \o CollapseNewlines(Tail(s))

\* makeLegalContent
makeLegalContent(content) ==
    IF content # <<>> /\ content[1] # 10 /\ ~HasNewlineRun(content)
    THEN content
    ELSE CollapseNewlines(TrimNewlines(content))

RECURSIVE DecimalDigits(_)
\* The decimal digits of n >= 0, as characters.
DecimalDigits(n) ==
    IF n < 10 THEN <<48 + n>> ELSE DecimalDigits(n \div 10) \o <<48 + (n % 10)>>

RECURSIVE ZeroPad(_, _)
ZeroPad(s, width) == IF Len(s) >= width THEN s ELSE ZeroPad(<<48>> \o s, width)

\* fmt's %0<width>d: the sign, then the digits padded with zeros to width
\* characters, the sign counted.
FormatInt(n, width) ==
    IF n >= 0 THEN ZeroPad(DecimalDigits(n), width)
    ELSE <<45>> \o ZeroPad(DecimalDigits(-n), width - 1)

\* A timeDurationToSRTTimestamp that writes all the milliseconds of d.
timeDurationToSRTTimestampAllMs(ms) ==
    LET totalSeconds == GoDiv(ms, 1000)
    IN  FormatInt(GoDiv(totalSeconds, 3600), 2) \o <<58>> \o
        FormatInt(GoDiv(GoMod(totalSeconds, 3600), 60), 2) \o <<58>> \o
        FormatInt(GoMod(totalSeconds, 60), 2) \o <<44>> \o FormatInt(ms, 3)

\* timeDurationToSRTTimestamp(d), for the d.Milliseconds() given: int64(d.Seconds())
\* is that value divided by 1000, truncated toward zero.
timeDurationToSRTTimestamp(ms) ==
    LET totalSeconds == GoDiv(ms, 1000)
        hours == GoDiv(totalSeconds, 3600)
        minutes == GoDiv(GoMod(totalSeconds, 3600), 60)
        seconds == GoMod(totalSeconds, 60)
        milliseconds == GoMod(ms, 1000)
    IN  FormatInt(hours, 2) \o <<58>> \o FormatInt(minutes, 2) \o <<58>> \o
        FormatInt(seconds, 2) \o <<44>> \o FormatInt(milliseconds, 3)

\* d.Milliseconds(), for d in microseconds.
Milliseconds(d) == GoDiv(d, 1000)

\* Subtitle.ToSRT(eol) with eol = "" (a newline), as the fields fmt.Sprintf
\* writes: "<index>\n<start> --> <end>\n<content>\n\n".  from is history: the
\* Index the cue had in sm.Cues.
ToSRT(s, from) ==
    [index |-> s.Index,
     start |-> timeDurationToSRTTimestamp(Milliseconds(s.Start)),
     end |-> timeDurationToSRTTimestamp(Milliseconds(s.End)),
     content |-> makeLegalContent(s.Content),
     from |-> from]

\* The less function of sortAndReindex: by Start, then End, then Index.
SubtitleLess(a, b) ==
    IF a.Start # b.Start THEN a.Start < b.Start
    ELSE IF a.End # b.End THEN a.End < b.End
    ELSE a.Index < b.Index

RECURSIVE SortSubtitles(_)
\* sort.Slice(sorted, less).  The cues of a SubMaker have distinct Index, so
\* less is a total order and the sorted slice is unique.
SortSubtitles(subs) ==
    IF subs = <<>> THEN <<>>
    ELSE LET i == CHOOSE i \in 1..Len(subs) :
                      \A j \in 1..Len(subs) : j = i \/ SubtitleLess(subs[i], subs[j])
             rest == SubSeq(subs, 1, i - 1) \o SubSeq(subs, i + 1, Len(subs))
         IN  <<subs[i]>> \o SortSubtitles(rest)

\* A skip test that only skips the cues without content.
ShouldSkipBlankOnly(sub) == TrimSpace(sub.Content) = <<>>

\* The skip test of sortAndReindex.
ShouldSkip(sub) ==
    \/ TrimSpace(sub.Content) = <<>>
    \/ sub.Start < 0
    \/ sub.Start >= sub.End

RECURSIVE ReindexLoop(_, _, _, _, _)
\* The loop of sortAndReindex over sorted[i..]; each survivor is paired with
\* the Index it had before.
ReindexLoop(sorted, i, idx, skipped, skip) ==
    IF i > Len(sorted) THEN <<>>
    ELSE LET sub == sorted[i]
         IN  IF skip /\ ShouldSkip(sub)
             THEN ReindexLoop(sorted, i + 1, idx, skipped + 1, skip)
             ELSE <<[sub |-> Subtitle(idx - skipped, sub.Start, sub.End,
                                      sub.Content),
                     from |-> sub.Index]>>
                  \o ReindexLoop(sorted, i + 1, idx + 1, skipped, skip)

\* sortAndReindex(subtitles, startIndex, skip)
sortAndReindex(subtitles, startIndex, skip) ==
    ReindexLoop(SortSubtitles(subtitles), 1, startIndex, 0, skip)

\* ComposeSRT(subtitles, reindex, startIndex, eol) with eol = "": the blocks
\* written, in order.
ComposeSRT(subtitles, reindex, startIndex) ==
    LET subs == IF reindex THEN sortAndReindex(subtitles, startIndex, TRUE)
                ELSE [i \in 1..Len(subtitles) |->
                         [sub |-> subtitles[i], from |-> subtitles[i].Index]]
    IN  [i \in 1..Len(subs) |-> ToSRT(subs[i].sub, subs[i].from)]

(* -------------------------- submaker.go ------------------------------- *)

\* A TTSChunk as SubMaker.Feed reads it: Type, Offset and Duration (in units
\* of 100 ns) and Text.
Event(type, offset, duration, txt) ==
    [Type |-> type, Offset |-> offset, Duration |-> duration, Text |-> txt]

\* The <<Offset, Duration>> of the events fed in SubSpec: 0 to 1 ms, 0 to 2 ms,
\* 1 to 2 ms, an empty interval at 1 ms, and an interval that starts before 0.
FedTimings ==
    { <<0, 10000>>, <<0, 20000>>, <<10000, 10000>>, <<10000, 0>>,
      <<-10000, 30000>> }

\* Their texts: "a", " ", "a\n" and "\na\n\nb".
FedTexts == { <<97>>, <<32>>, <<97, 10>>, <<10, 97, 10, 10, 98>> }

FedEvents ==
    { Event(ty, tm[1], tm[2], tx) :
          ty \in {"WordBoundary", "SentenceBoundary"},
          tm \in FedTimings, tx \in FedTexts }
    \cup { Event("audio", 0, 0, <<>>) }

\* time.Duration(x / 10) * time.Microsecond, in microseconds: the conversion of
\* the float64 quotient to an integer truncates toward zero.
MicrosOf(x) == GoDiv(x, 10)

\* A Feed that does not compare the kind of the event with sm.CueType.
FeedOfAnyKind(msg) ==
    /\ srtPc = "feeding"
    /\ Len(Cues) < MaxCues
    /\ IF msg.Type \notin {"WordBoundary", "SentenceBoundary"}
       THEN /\ feedRet' = "error"
            /\ UNCHANGED <<Cues, CueType, fedTypes>>
       ELSE /\ CueType' = IF CueType = "" THEN msg.Type ELSE CueType
            /\ Cues' = Append(Cues, Subtitle(Len(Cues) + 1, MicrosOf(msg.Offset),
                                             MicrosOf(msg.Offset + msg.Duration),
                                             msg.Text))
            /\ fedTypes' = Append(fedTypes, msg.Type)
            /\ feedRet' = "nil"
    /\ UNCHANGED <<srt, srtPc, splitVars, stampVars, drmVars, cfgVars, streamVars,
                   wireVars, raceVars>>

\* sm.Feed(msg)
Feed(msg) ==
    /\ srtPc = "feeding"
    /\ Len(Cues) < MaxCues
    /\ IF msg.Type \notin {"WordBoundary", "SentenceBoundary"}
       THEN /\ feedRet' = "error"
            /\ UNCHANGED <<Cues, CueType, fedTypes>>
       ELSE IF CueType # "" /\ CueType # msg.Type
       THEN /\ feedRet' = "error"
            /\ UNCHANGED <<Cues, CueType, fedTypes>>
       ELSE /\ CueType' = IF CueType = "" THEN msg.Type ELSE CueType
            /\ Cues' = Append(Cues, Subtitle(Len(Cues) + 1, MicrosOf(msg.Offset),
                                             MicrosOf(msg.Offset + msg.Duration),
                                             msg.Text))
            /\ fedTypes' = Append(fedTypes, msg.Type)
            /\ feedRet' = "nil"
    /\ UNCHANGED <<srt, srtPc, splitVars, stampVars, drmVars, cfgVars, streamVars,
                   wireVars, raceVars>>

FeedSome == \E msg \in FedEvents : Feed(msg)

\* sm.GetSRT(): ComposeSRT(sm.Cues, true, 1, "")
GetSRT ==
    /\ srtPc = "feeding"
    /\ srt' = ComposeSRT(Cues, TRUE, 1)
    /\ srtPc' = "composed"
    /\ UNCHANGED <<Cues, CueType, feedRet, fedTypes, splitVars, stampVars, drmVars,
                   cfgVars, streamVars,
                   wireVars, raceVars>>

SubInit ==
    /\ nTexts = 0
    /\ StreamIdle
    /\ SplitIdle
    /\ StampIdle
    /\ DrmIdle
    /\ ConfigIdle
    /\ WireIdle
    /\ RaceIdle
    /\ SubIdle

SubNext == FeedSome \/ GetSRT

\* One SubMaker: events are fed, then the SRT document is composed.
SubSpec == SubInit /\ [][SubNext]_vars

(* ------------------ timeDurationToSRTTimestamp alone ------------------ *)

\* The durations of StampSpec, in milliseconds: every combination of these
\* hours, minutes, seconds and milliseconds.
StampInputs ==
    { ((h * 60 + m) * 60 + sec) * 1000 + ms :
          h \in {0, 1, 9, 10, 23}, m \in {0, 9, 59}, sec \in {0, 10, 59},
          ms \in {0, 1, 99, 999} }

StampInit ==
    /\ nTexts = 0
    /\ StreamIdle
    /\ SplitIdle
    /\ SubIdle
    /\ DrmIdle
    /\ ConfigIdle
    /\ WireIdle
    /\ RaceIdle
    /\ stampMs \in StampInputs
    /\ stamp = <<>>
    /\ stampPc = "input"

\* The call timeDurationToSRTTimestamp(d), d of stampMs milliseconds.
CallStamp ==
    /\ stampPc = "input"
    /\ stamp' = timeDurationToSRTTimestamp(stampMs)
    /\ stampPc' = "done"
    /\ UNCHANGED <<stampMs, splitVars, subVars, drmVars, cfgVars, streamVars,
                   wireVars, raceVars>>

StampNext == CallStamp

StampSpec == StampInit /\ [][StampNext]_vars

(***************************************************************************)
(*                          Part IV.  The DRM                              *)
(***************************************************************************)

\* Bounds of DrmSpec.  Times are held in units of 1/UnitsPerSecond s, so a
\* float64 skew with a fraction is a number of units that UnitsPerSecond does
\* not divide.  The wall clock starts at ClockStart, just before the end of a
\* 300-second window, and ticks MaxTicks times.
UnitsPerSecond == 2
ClockStart == 298
MaxTicks == 3
MaxDrmCalls == 3

\* The 300 of "ticks -= float64(int64(ticks) % 300)".
Window == 300

\* WinEpoch = 11644473600 s, in windows of 300 s: 11644473600 = 300 * 38814912.
WinEpochWindows == 38814912

\* The server times the responses carry, in seconds.
ServerTimes == {297, 300}

\* The values a client passes to AdjClockSkewSeconds, in units: a fraction of
\* a second, and minus one second.
AdjValues == {1, -UnitsPerSecond}

\* What HandleClientResponseError may be given: no response, a response with
\* no headers, with no Date header, with a Date in neither layout, and with a
\* Date in the layout time.RFC1123 or "Mon, 02 Jan 2006 15:04:05 GMT".
Responses ==
    { [kind |-> k, date |-> 0] : k \in {"nil", "noHeader", "noDate"} }
    \cup { [kind |-> k, date |-> S] :
               k \in {"other", "RFC1123", "GMT"}, S \in ServerTimes }

\* ParseRFC2616Date(dateStr): the Unix time of a date in one of the two
\* layouts, an error for any other string.
ParseRFC2616Date(resp) ==
    IF resp.kind \in {"RFC1123", "GMT"}
    THEN [ts |-> resp.date * UnitsPerSecond, err |-> "nil"]
    ELSE [ts |-> 0, err |-> "parse"]

\* A reading of the response that goes on with the zero timestamp when the
\* date does not parse.
ServerDateUnchecked(resp) ==
    IF resp.kind \in {"nil", "noHeader", "noDate"}
    THEN [ts |-> 0, err |-> "ErrSkewAdjustment"]
    ELSE [ts |-> ParseRFC2616Date(resp).ts, err |-> "nil"]

\* The first part of HandleClientResponseError: the server timestamp of the
\* response, or the error returned.
ServerDate(resp) ==
    IF resp.kind \in {"nil", "noHeader"}
    THEN [ts |-> 0, err |-> "ErrSkewAdjustment"]
    ELSE IF resp.kind = "noDate"
    THEN [ts |-> 0, err |-> "ErrSkewAdjustment"]
    ELSE IF ParseRFC2616Date(resp).err # "nil"
    THEN [ts |-> 0, err |-> "ErrSkewAdjustment"]
    ELSE [ts |-> ParseRFC2616Date(resp).ts, err |-> "nil"]

\* A GetUnixTimestamp that returns the wall clock as it is.
GetUnixTimestampUncorrected == wallClock * UnitsPerSecond

\* d.GetUnixTimestamp(), under d.mu.RLock(): float64(time.Now().UTC().Unix())
\* + d.clockSkewSeconds, in units.
GetUnixTimestamp == wallClock * UnitsPerSecond + clockSkewSeconds

\* The number GenerateSecMSGEC writes before the trusted client token, for the
\* corrected time t (in units, t >= 0): ticks = t + WinEpoch;
\* ticks -= float64(int64(ticks) % 300); ticks *= SToNS / 100; "%.0f".  The
\* number is given as the windows of 300 s it holds since 1601 and the units
\* above them: it is (windows * 300 + excess / UnitsPerSecond) * 10^7.
\* WinEpoch is a multiple of 300, so int64(ticks) % 300 is int64(t) % 300.
TicksHashed(t) ==
    LET whole == GoDiv(t, UnitsPerSecond)
        rounded == t - GoMod(whole, Window) * UnitsPerSecond
    IN  [windows |-> WinEpochWindows + rounded \div (Window * UnitsPerSecond),
         excess |-> rounded % (Window * UnitsPerSecond)]

AllIdle == \A p \in Callers : drmPc[p] = "idle"

\* time.Now() moves on by one second.  (In DrmSpec the clock stands still
\* while a calibration is between its two locked sections.)
Tick ==
    /\ AllIdle
    /\ wallClock < ClockStart + MaxTicks
    /\ wallClock' = wallClock + 1
    /\ calibrated' = {}
    /\ overlapped' = FALSE
    /\ UNCHANGED <<clockSkewSeconds, drmPc, clientTimestamp, serverTimestamp,
                   drmRet, drmLast, hashed, drmCalls, splitVars, subVars,
                   stampVars, cfgVars, streamVars,
                   wireVars, raceVars>>

\* d.AdjClockSkewSeconds(x), under d.mu.Lock(), called by a client of the
\* package.
AdjClockSkewSeconds(p, x) ==
    /\ AllIdle
    /\ drmCalls < MaxDrmCalls
    /\ drmCalls' = drmCalls + 1
    /\ clockSkewSeconds' = clockSkewSeconds + x
    /\ drmLast' = [op |-> "AdjClockSkewSeconds", caller |-> p, resp |-> "none"]
    /\ calibrated' = {}
    /\ overlapped' = FALSE
    /\ UNCHANGED <<wallClock, drmPc, clientTimestamp, serverTimestamp, drmRet,
                   hashed, splitVars, subVars, stampVars, cfgVars, streamVars,
                   wireVars, raceVars>>

\* d.HandleClientResponseError(resp), up to clientTimestamp :=
\* d.GetUnixTimestamp(): an error is returned, or the two timestamps are taken.
HandleClientResponseError(p, resp) ==
    /\ drmPc[p] = "idle"
    /\ drmCalls < MaxDrmCalls
    /\ drmCalls' = drmCalls + 1
    /\ drmLast' = [op |-> "HandleClientResponseError", caller |-> p,
                   resp |-> resp.kind]
    /\ LET d == ServerDate(resp)
       IN  IF d.err # "nil"
           THEN /\ drmRet' = [drmRet EXCEPT ![p] = d.err]
                /\ UNCHANGED <<drmPc, clientTimestamp, serverTimestamp,
                               calibrated, overlapped>>
           ELSE /\ serverTimestamp' = [serverTimestamp EXCEPT ![p] = d.ts]
                /\ clientTimestamp' = [clientTimestamp EXCEPT ![p] = GetUnixTimestamp]
                /\ drmPc' = [drmPc EXCEPT ![p] = "adjust"]
                /\ drmRet' = [drmRet EXCEPT ![p] = "none"]
                /\ calibrated' = calibrated \cup {resp.date}
                /\ overlapped' = (overlapped \/ ~AllIdle)
    /\ UNCHANGED <<clockSkewSeconds, wallClock, hashed, splitVars, subVars,
                   stampVars, cfgVars, streamVars,
                   wireVars, raceVars>>

\* The rest of HandleClientResponseError:
\* d.AdjClockSkewSeconds(serverTimestamp - clientTimestamp); return nil.
HandleAdjust(p) ==
    /\ drmPc[p] = "adjust"
    /\ clockSkewSeconds' = clockSkewSeconds + (serverTimestamp[p] - clientTimestamp[p])
    /\ drmPc' = [drmPc EXCEPT ![p] = "idle"]
    /\ drmRet' = [drmRet EXCEPT ![p] = "nil"]
    /\ UNCHANGED <<wallClock, clientTimestamp, serverTimestamp, drmLast, hashed,
                   calibrated, overlapped, drmCalls, splitVars, subVars,
                   stampVars, cfgVars, streamVars,
                   wireVars, raceVars>>

\* d.GenerateSecMSGEC(): the token is the SHA-256 of the number and the
\* trusted client token, so two calls return the same token exactly when they
\* hash the same number.
GenerateSecMSGEC(p) ==
    /\ drmCalls < MaxDrmCalls
    /\ drmCalls' = drmCalls + 1
    /\ drmLast' = [op |-> "GenerateSecMSGEC", caller |-> p, resp |-> "none"]
    /\ hashed' = hashed \cup {[t |-> GetUnixTimestamp, skew |-> clockSkewSeconds,
                               n |-> TicksHashed(GetUnixTimestamp)]}
    /\ UNCHANGED <<clockSkewSeconds, wallClock, drmPc, clientTimestamp,
                   serverTimestamp, drmRet, calibrated, overlapped, splitVars,
                   subVars, stampVars, cfgVars, streamVars,
                   wireVars, raceVars>>

DrmInit ==
    /\ nTexts = 0
    /\ StreamIdle
    /\ SplitIdle
    /\ SubIdle
    /\ StampIdle
    /\ DrmFresh
    /\ ConfigIdle
    /\ WireIdle
    /\ RaceIdle
    /\ wallClock = ClockStart

DrmNext ==
    \/ Tick
    \/ \E p \in Callers :
           \/ \E x \in AdjValues : AdjClockSkewSeconds(p, x)
           \/ \E resp \in Responses : HandleClientResponseError(p, resp)
           \/ HandleAdjust(p)
           \/ GenerateSecMSGEC(p)

\* The global DRM and the goroutines that call it.
DrmSpec == DrmInit /\ [][DrmNext]_vars

(***************************************************************************)
(*            Part V.  ValidateTTSConfig and NewCommunicate               *)
(***************************************************************************)

\* Strings are byte strings, as in Part I.
Lower == 97..122
Upper == 65..90
Digits == 48..57

\* "Neural"
NeuralSuffix == <<78, 101, 117, 114, 97, 108>>

\* "Microsoft Server Speech Text to Speech Voice ("
LongVoicePrefix ==
    <<77, 105, 99, 114, 111, 115, 111, 102, 116, 32, 83, 101, 114, 118, 101,
      114, 32, 83, 112, 101, 101, 99, 104, 32, 84, 101, 120, 116, 32, 116,
      111, 32, 83, 112, 101, 101, 99, 104, 32, 86, 111, 105, 99, 101, 32, 40>>

\* DefaultVoice = "en-US-EmmaMultilingualNeural"
DefaultVoice ==
    <<101, 110, 45, 85, 83, 45, 69, 109, 109, 97, 77, 117, 108, 116, 105,
      108, 105, 110, 103, 117, 97, 108, 78, 101, 117, 114, 97, 108>>

\* The defaults of NewCommunicate: "+0%", "+0%", "+0Hz".
DefaultRate == <<43, 48, 37>>
DefaultVolume == <<43, 48, 37>>
DefaultPitch == <<43, 48, 72, 122>>

HasPrefix(s, p) == Len(s) >= Len(p) /\ SubSeq(s, 1, Len(p)) = p

HasSuffix(s, p) == Len(s) >= Len(p) /\ SubSeq(s, Len(s) - Len(p) + 1, Len(s)) = p

\* No byte of s is a newline: every byte of s can be matched by ".".
NoNewline(s) == \A i \in DOMAIN s : s[i] # 10

RECURSIVE ClassRun(_, _, _)
\* The length of the longest run of bytes of class that starts at s[i].
ClassRun(s, i, class) ==
    IF i <= Len(s) /\ s[i] \in class THEN 1 + ClassRun(s, i + 1, class) ELSE 0

\* voicePattern.FindStringSubmatch(voice) for
\* ^([a-z]{2,})-([A-Z]{2,})-(.+Neural)$: the three groups, or no match.  The
\* classes hold no '-', so the first two groups are the whole runs of letters.
voicePattern(voice) ==
    LET n == Len(voice)
        n1 == ClassRun(voice, 1, Lower)
        d1 == n1 + 1
        n2 == ClassRun(voice, d1 + 1, Upper)
        d2 == d1 + n2 + 1
        rest == SubSeq(voice, d2 + 1, n)
    IN  IF /\ n1 >= 2
           /\ d1 <= n /\ voice[d1] = 45
           /\ n2 >= 2
           /\ d2 <= n /\ voice[d2] = 45
           /\ Len(rest) > Len(NeuralSuffix)
           /\ HasSuffix(rest, NeuralSuffix)
           /\ NoNewline(rest)
        THEN [ok |-> TRUE, lang |-> SubSeq(voice, 1, n1),
              region |-> SubSeq(voice, d1 + 1, d1 + n2), name |-> rest]
        ELSE [ok |-> FALSE, lang |-> <<>>, region |-> <<>>, name |-> <<>>]

\* voiceFullPattern.MatchString(voice) for
\* ^Microsoft Server Speech Text to Speech Voice \(.+,.+\)$
voiceFullPattern(voice) ==
    /\ HasPrefix(voice, LongVoicePrefix)
    /\ Len(voice) > Len(LongVoicePrefix)
    /\ voice[Len(voice)] = 41
    /\ LET inner == SubSeq(voice, Len(LongVoicePrefix) + 1, Len(voice) - 1)
       IN  /\ NoNewline(inner)
           /\ \E j \in 2..(Len(inner) - 1) : inner[j] = 44

\* A pattern for rate and volume whose sign is optional: ^[+-]?\d+%$
ratePatternSignOptional(s) ==
    LET t == IF s # <<>> /\ s[1] \in {43, 45} THEN Tail(s) ELSE s
    IN  /\ Len(t) >= 2
        /\ t[Len(t)] = 37
        /\ \A i \in 1..(Len(t) - 1) : t[i] \in Digits

\* ratePattern.MatchString(s) and volumePattern.MatchString(s) for ^[+-]\d+%$
ratePattern(s) ==
    /\ Len(s) >= 3
    /\ s[1] \in {43, 45}
    /\ s[Len(s)] = 37
    /\ \A i \in 2..(Len(s) - 1) : s[i] \in Digits

\* pitchPattern.MatchString(s) for ^[+-]\d+Hz$
pitchPattern(s) ==
    /\ Len(s) >= 4
    /\ s[1] \in {43, 45}
    /\ s[Len(s) - 1] = 72 /\ s[Len(s)] = 122
    /\ \A i \in 2..(Len(s) - 2) : s[i] \in Digits

\* A rule that moves every token of the name but the last into the region.
NameLastDash(name) == LastIndexByte(name, 45)

\* strings.Index(name, "-")
NameDash(name) == IndexByte(name, 45)

\* The Voice ValidateTTSConfig leaves in tc: the long form of a voice that
\* matches voicePattern, any other voice as it is.
RewrittenVoice(voice) ==
    LET m == voicePattern(voice)
        idx == NameDash(m.name)
        region == IF idx # -1 THEN m.region \o <<45>> \o Slice(m.name, 0, idx)
                  ELSE m.region
        name == IF idx # -1 THEN Slice(m.name, idx + 1, Len(m.name)) ELSE m.name
    IN  IF m.ok
        THEN LongVoicePrefix \o m.lang \o <<45>> \o region \o <<44, 32>> \o name
                 \o <<41>>
        ELSE voice

\* ValidateTTSConfig(tc): tc as the call leaves it, and the error returned.
ValidateTTSConfig(tc) ==
    LET after == [tc EXCEPT !.Voice = RewrittenVoice(tc.Voice)]
    IN  [tc |-> after,
         err |-> IF ~voiceFullPattern(after.Voice) THEN "ErrInvalidVoice"
                 ELSE IF ~ratePattern(after.Rate) THEN "ErrInvalidRate"
                 ELSE IF ~ratePattern(after.Volume) THEN "ErrInvalidVolume"
                 ELSE IF ~pitchPattern(after.Pitch) THEN "ErrInvalidPitch"
                 ELSE "nil"]

\* RemoveIncompatibleCharacters: the control characters 0-8, 11, 12 and 14-31
\* become spaces.  (For texts of ASCII bytes, as those NewCommunicate is
\* given in ConfigSpec.)
RemoveIncompatibleCharacters(s) ==
    [i \in DOMAIN s |->
        IF s[i] \in (0..8) \cup {11, 12} \cup (14..31) THEN 32 ELSE s[i]]

RECURSIVE EscapeXML(_)
\* html.EscapeString: & < > ' " become &amp; &lt; &gt; &#39; &#34;
EscapeXML(s) ==
    IF s = <<>> THEN <<>>
    ELSE (CASE s[1] = 38 -> <<38, 97, 109, 112, 59>>
            [] s[1] = 60 -> <<38, 108, 116, 59>>
            [] s[1] = 62 -> <<38, 103, 116, 59>>
            [] s[1] = 39 -> <<38, 35, 51, 57, 59>>
            [] s[1] = 34 -> <<38, 35, 51, 52, 59>>
            [] OTHER -> <<s[1]>>) \o EscapeXML(Tail(s))

(* ------------------------------ inputs -------------------------------- *)

\* The voices given:
\* "en-US-EmmaNeural"
VoiceEmma ==
    <<101, 110, 45, 85, 83, 45, 69, 109, 109, 97, 78, 101, 117, 114, 97, 108>>

\* "zh-CN-liaoning-XiaobeiNeural"
VoiceXiaobei ==
    <<122, 104, 45, 67, 78, 45, 108, 105, 97, 111, 110, 105, 110, 103, 45,
      88, 105, 97, 111, 98, 101, 105, 78, 101, 117, 114, 97, 108>>

\* "fil-PH-AngeloNeural"
VoiceAngelo ==
    <<102, 105, 108, 45, 80, 72, 45, 65, 110, 103, 101, 108, 111, 78, 101,
      117, 114, 97, 108>>

\* "en-US-a-b-cNeural"
VoiceTwoDashes ==
    <<101, 110, 45, 85, 83, 45, 97, 45, 98, 45, 99, 78, 101, 117, 114, 97,
      108>>

\* "Microsoft Server Speech Text to Speech Voice (en-US, EmmaNeural)"
VoiceLong ==
    <<77, 105, 99, 114, 111, 115, 111, 102, 116, 32, 83, 101, 114, 118, 101,
      114, 32, 83, 112, 101, 101, 99, 104, 32, 84, 101, 120, 116, 32, 116,
      111, 32, 83, 112, 101, 101, 99, 104, 32, 86, 111, 105, 99, 101, 32, 40,
      101, 110, 45, 85, 83, 44, 32, 69, 109, 109, 97, 78, 101, 117, 114, 97,
      108, 41>>

\* "Microsoft Server Speech Text to Speech Voice (x,y)"
VoiceLongOther ==
    <<77, 105, 99, 114, 111, 115, 111, 102, 116, 32, 83, 101, 114, 118, 101,
      114, 32, 83, 112, 101, 101, 99, 104, 32, 84, 101, 120, 116, 32, 116,
      111, 32, 83, 112, 101, 101, 99, 104, 32, 86, 111, 105, 99, 101, 32, 40,
      120, 44, 121, 41>>

\* "iu-Cans-CA-SiqiniqNeural"
VoiceSiqiniq ==
    <<105, 117, 45, 67, 97, 110, 115, 45, 67, 65, 45, 83, 105, 113, 105, 110,
      105, 113, 78, 101, 117, 114, 97, 108>>

\* "iu-Latn-CA-TaqqiqNeural"
VoiceTaqqiq ==
    <<105, 117, 45, 76, 97, 116, 110, 45, 67, 65, 45, 84, 97, 113, 113, 105,
      113, 78, 101, 117, 114, 97, 108>>

\* "en-US-Emma"
VoiceNoNeural ==
    <<101, 110, 45, 85, 83, 45, 69, 109, 109, 97>>

\* "en-us-EmmaNeural"
VoiceLowerRegion ==
    <<101, 110, 45, 117, 115, 45, 69, 109, 109, 97, 78, 101, 117, 114, 97,
      108>>

\* "en-US-Neural"
VoiceBareNeural ==
    <<101, 110, 45, 85, 83, 45, 78, 101, 117, 114, 97, 108>>

\* "e-US-EmmaNeural"
VoiceOneLetter ==
    <<101, 45, 85, 83, 45, 69, 109, 109, 97, 78, 101, 117, 114, 97, 108>>

\* "Microsoft Server Speech Text to Speech Voice (en-US EmmaNeural)"
VoiceNoComma ==
    <<77, 105, 99, 114, 111, 115, 111, 102, 116, 32, 83, 101, 114, 118, 101,
      114, 32, 83, 112, 101, 101, 99, 104, 32, 84, 101, 120, 116, 32, 116,
      111, 32, 83, 112, 101, 101, 99, 104, 32, 86, 111, 105, 99, 101, 32, 40,
      101, 110, 45, 85, 83, 32, 69, 109, 109, 97, 78, 101, 117, 114, 97, 108,
      41>>

\* ""
VoiceEmpty ==
    <<>>

VoicesGiven ==
    {VoiceEmma, VoiceXiaobei, VoiceAngelo, VoiceTwoDashes, VoiceLong, VoiceLongOther,
     VoiceSiqiniq, VoiceTaqqiq, VoiceNoNeural, VoiceLowerRegion, VoiceBareNeural,
     VoiceOneLetter, VoiceNoComma, VoiceEmpty}

\* Rates and volumes given: "+0%", "-50%", "10%", "+%", "+1.5%", "+10", "".
RatesGiven ==
    {<<43, 48, 37>>,
     <<45, 53, 48, 37>>,
     <<49, 48, 37>>,
     <<43, 37>>,
     <<43, 49, 46, 53, 37>>,
     <<43, 49, 48>>,
     <<>>}

\* Pitches given: "+0Hz", "-5Hz", "5Hz", "+5hz", "+5%".
PitchesGiven ==
    {<<43, 48, 72, 122>>,
     <<45, 53, 72, 122>>,
     <<53, 72, 122>>,
     <<43, 53, 104, 122>>,
     <<43, 53, 37>>}

\* The configurations ValidateTTSConfig is given in ValidateSpec: every voice
\* with the default rate, volume and pitch, and the voice "en-US-EmmaNeural"
\* and an invalid one with every rate, volume and pitch.
ValidateInputs ==
    { [Voice |-> v, Rate |-> DefaultRate, Volume |-> DefaultVolume,
       Pitch |-> DefaultPitch] : v \in VoicesGiven }
    \cup { [Voice |-> v, Rate |-> r, Volume |-> vol, Pitch |-> p] :
               v \in {VoiceEmma, VoiceNoNeural},
               r \in RatesGiven \ {<<45, 53, 48, 37>>}, vol \in {DefaultVolume, <<43, 37>>},
               p \in {DefaultPitch, <<53, 72, 122>>} }

\* An option that is not given.
NotGiven == <<0>>

\* The arguments NewCommunicate is given in ConfigSpec: the text "a<b", a
\* voice ("" for the default), and WithRate, WithVolume, WithPitch or none.
NewInputs ==
    { [text |-> <<97, 60, 98>>, voice |-> v, rate |-> r, volume |-> vol, pitch |-> p] :
          v \in {VoiceEmpty, VoiceEmma, VoiceNoNeural},
          r \in {NotGiven, <<45, 53, 48, 37>>, <<49, 48, 37>>},
          vol \in {NotGiven, <<43, 37>>},
          p \in {NotGiven, <<53, 72, 122>>} }

(* ------------------------------ actions ------------------------------- *)

\* A TTSConfig, before ValidateTTSConfig is called on it.
ValidateInit ==
    /\ nTexts = 0
    /\ StreamIdle
    /\ SplitIdle
    /\ SubIdle
    /\ StampIdle
    /\ DrmIdle
    /\ WireIdle
    /\ RaceIdle
    /\ newArgs \in ValidateInputs
    /\ ttsConfig = newArgs
    /\ cfgErr = "none"
    /\ cfgPc = "validate"

\* err := ValidateTTSConfig(tc)
CallValidate ==
    /\ cfgPc = "validate"
    /\ ttsConfig' = ValidateTTSConfig(ttsConfig).tc
    /\ cfgErr' = ValidateTTSConfig(ttsConfig).err
    /\ cfgPc' = "validated"
    /\ UNCHANGED <<newArgs, splitVars, subVars, stampVars, drmVars, streamVars,
                   wireVars, raceVars>>

ValidateNext == CallValidate

\* ValidateTTSConfig, applied to one configuration.
ValidateSpec == ValidateInit /\ [][ValidateNext]_vars

\* The arguments of NewCommunicate, before the call.
ConfigInit ==
    /\ nTexts = 0
    /\ StreamIdle
    /\ SplitIdle
    /\ SubIdle
    /\ StampIdle
    /\ DrmIdle
    /\ WireIdle
    /\ RaceIdle
    /\ newArgs \in NewInputs
    /\ ttsConfig = NoConfig
    /\ cfgErr = "none"
    /\ cfgPc = "new"

\* The option, or the default of NewCommunicate when it is not given.
OptionOr(opt, default) == IF opt = NotGiven THEN default ELSE opt

\* c, err := NewCommunicate(text, voice, opts...): the defaults, the options,
\* ValidateTTSConfig, and for a valid configuration the texts; (nil, err) for
\* an invalid one.  The state of the Communicate is as in StreamIdle.
CallNewCommunicate ==
    /\ cfgPc = "new"
    /\ LET given ==
               [Voice |-> IF newArgs.voice = <<>> THEN DefaultVoice
                          ELSE newArgs.voice,
                Rate |-> OptionOr(newArgs.rate, DefaultRate),
                Volume |-> OptionOr(newArgs.volume, DefaultVolume),
                Pitch |-> OptionOr(newArgs.pitch, DefaultPitch)]
           v == ValidateTTSConfig(given)
           escapedText == EscapeXML(RemoveIncompatibleCharacters(newArgs.text))
       IN  /\ cfgErr' = v.err
           /\ ttsConfig' = IF v.err = "nil" THEN v.tc ELSE NoConfig
           /\ nTexts' = IF v.err = "nil"
                        THEN Len(SplitTextByByteLength(escapedText, 4096).chunks)
                        ELSE nTexts
    /\ cfgPc' = "returned"
    /\ UNCHANGED <<newArgs, StreamWasCalled, OffsetCompensation, LastDurationOffset,
                   PartialText, ctxDone, calls, sVars, outVars, iVars, inVars,
                   cVars, histVars, splitVars, subVars, stampVars, drmVars,
                   wireVars, raceVars>>

\* The caller that got a Communicate uses it: Stream and what follows.  A
\* caller that got (nil, err) has no Communicate to call Stream on.
UseCommunicate ==
    /\ cfgPc = "returned"
    /\ cfgErr = "nil"
    /\ Next

ConfigNext ==
    \/ CallNewCommunicate
    \/ UseCommunicate

\* NewCommunicate, and the Stream calls on the Communicate it returns.
ConfigSpec == ConfigInit /\ [][ConfigNext]_vars

(***************************************************************************)
(*                   Part VI.  The frames on the wire                      *)
(***************************************************************************)

\* "\r\n" and "\r\n\r\n"
CRLF == <<13, 10>>

CRLFCRLF == <<13, 10, 13, 10>>

\* bytes.Index(s, sep): the 0-based index of the first sep in s, or -1.
Index(s, sep) ==
    LET at == { i \in 0..(Len(s) - Len(sep)) : Slice(s, i, i + Len(sep)) = sep }
    IN  IF at = {} THEN -1 ELSE CHOOSE i \in at : \A j \in at : i <= j

RECURSIVE bytesSplit(_, _)
\* bytes.Split(s, sep), for a sep that is not empty.
bytesSplit(s, sep) ==
    LET i == Index(s, sep)
    IN  IF i < 0 THEN <<s>>
        ELSE <<Slice(s, 0, i)>> \o bytesSplit(Slice(s, i + Len(sep), Len(s)), sep)

\* A SplitN that cuts the line at its last ':'.
SplitAtLastColon(line) ==
    LET i == LastIndexByte(line, 58)
    IN  IF i < 0 THEN <<line>>
        ELSE <<Slice(line, 0, i), Slice(line, i + 1, Len(line))>>

\* bytes.SplitN(line, []byte(":"), 2)
SplitN2(line) ==
    LET i == IndexByte(line, 58)
    IN  IF i < 0 THEN <<line>>
        ELSE <<Slice(line, 0, i), Slice(line, i + 1, Len(line))>>

\* A search for the blank line that takes the last "\r\n\r\n" of data.
headerEndLast(data) ==
    LET at == { i \in 0..(Len(data) - 4) : Slice(data, i, i + 4) = CRLFCRLF }
    IN  IF at = {} THEN -1 ELSE CHOOSE i \in at : \A j \in at : j <= i

\* headerEnd := -1; for i := 0; i < len(data)-3; i++ { if data[i:i+4] is
\* "\r\n\r\n" { headerEnd = i; break } }
headerEnd(data) ==
    LET at == { i \in 0..(Len(data) - 4) : Slice(data, i, i + 4) = CRLFCRLF }
    IN  IF at = {} THEN -1 ELSE CHOOSE i \in at : \A j \in at : i <= j

\* GetHeadersAndData(data, headerLength): headers holds the <<key, value>> of
\* the lines with a ':', in the order of the lines; body is data[headerLength:].
GetHeadersAndData(data, headerLength) ==
    LET hl == IF headerLength > Len(data) THEN Len(data) ELSE headerLength
        lines == bytesSplit(Slice(data, 0, hl), CRLF)
        parts == [i \in DOMAIN lines |-> SplitN2(lines[i])]
    IN  [headers |-> SelectSeq(parts, LAMBDA pr : Len(pr) = 2),
         body |-> Slice(data, hl, Len(data))]

\* headers[key] of a Go map filled line after line: the value of the last line
\* with this key, "" when there is none.
HeaderValue(headers, key) ==
    LET at == { i \in DOMAIN headers : headers[i][1] = key }
    IN  IF at = {} THEN <<>>
        ELSE headers[CHOOSE i \in at : \A j \in at : j <= i][2]

\* A Uint16 that reads the two bytes low byte first.
Uint16LittleEndian(b) == b[2] * 256 + b[1]

\* binary.BigEndian.Uint16(b)
Uint16(b) == b[1] * 256 + b[2]

\* binary.BigEndian.PutUint16, as the server does it.
PutUint16(n) == <<n \div 256, n % 256>>

\* data[2:]
BinaryPayload(data) == Slice(data, 2, Len(data))

(* --------------------------- encoding/json ---------------------------- *)

\* The white space json.Unmarshal skips around a document.
JsonSpace == {32, 9, 13, 10}

RECURSIVE SkipJsonSpace(_)
SkipJsonSpace(s) ==
    IF s # <<>> /\ Head(s) \in JsonSpace THEN SkipJsonSpace(Tail(s)) ELSE s

RECURSIVE DropJsonSpace(_)
DropJsonSpace(s) ==
    IF s # <<>> /\ s[Len(s)] \in JsonSpace
    THEN DropJsonSpace(SubSeq(s, 1, Len(s) - 1)) ELSE s

\* The Type of a metadata entry, as bytes.
TypeBytes(type) ==
    CASE type = "WordBoundary" -> <<87, 111, 114, 100, 66, 111, 117, 110, 100, 97, 114, 121>>
      [] type = "SentenceBoundary" ->
             <<83, 101, 110, 116, 101, 110, 99, 101, 66, 111, 117, 110, 100,
               97, 114, 121>>
      [] type = "SessionEnd" -> <<83, 101, 115, 115, 105, 111, 110, 69, 110, 100>>
      [] OTHER -> <<86, 105, 115, 101, 109, 101>>

\* {"Type":"<type>","Data":{"Offset":<offset>,"Duration":<duration>}}
JsonOfEntry(e) ==
    <<123, 34, 84, 121, 112, 101, 34, 58, 34>> \o TypeBytes(e.Type) \o
    <<34, 44, 34, 68, 97, 116, 97, 34, 58, 123, 34, 79, 102, 102, 115, 101, 116, 34, 58>>
    \o DecimalDigits(e.Offset) \o
    <<44, 34, 68, 117, 114, 97, 116, 105, 111, 110, 34, 58>> \o DecimalDigits(e.Duration)
    \o <<125, 125>>

RECURSIVE JsonOfEntries(_)
JsonOfEntries(meta) ==
    IF meta = <<>> THEN <<>>
    ELSE IF Len(meta) = 1 THEN JsonOfEntry(meta[1])
    ELSE JsonOfEntry(meta[1]) \o <<44>> \o JsonOfEntries(Tail(meta))

\* {"Metadata":[<entries>]}: the document the server sends for meta.
JsonOf(meta) ==
    <<123, 34, 77, 101, 116, 97, 100, 97, 116, 97, 34, 58, 91>>
    \o JsonOfEntries(meta) \o <<93, 125>>

\* The metadata of the documents the server sends on the wire.
WireMetas ==
    { <<Entry("WordBoundary", 0, 1)>>,
      <<Entry("SentenceBoundary", 1, 0)>>,
      <<Entry("WordBoundary", 0, 1), Entry("WordBoundary", 1, 0)>>,
      <<Entry("SessionEnd", 0, 0), Entry("SentenceBoundary", 1, 0),
        Entry("WordBoundary", 0, 1)>>,
      <<Entry("SessionEnd", 0, 0)>>,
      <<>>,
      <<Entry("Viseme", 0, 0)>>,
      <<Entry("WordBoundary", 0, 1), Entry("Viseme", 0, 0)>> }

\* json.Unmarshal(data, &resp): the Metadata of the document data holds, white
\* space around it skipped; an error for what is no document of the server.
Unmarshal(data) ==
    LET doc == DropJsonSpace(SkipJsonSpace(data))
        ms == { m \in WireMetas : JsonOf(m) = doc }
    IN  IF ms = {} THEN [err |-> "json", meta |-> <<>>]
        ELSE [err |-> "none", meta |-> CHOOSE m \in ms : TRUE]

(* ----------------------- the headers of a frame ----------------------- *)

\* "Path" and "Content-Type"
KeyPath == <<80, 97, 116, 104>>

KeyContentType == <<67, 111, 110, 116, 101, 110, 116, 45, 84, 121, 112, 101>>

\* A read loop whose switch has no case for turn.start.
PathNameNoTurnStart(value) ==
    CASE value = <<97, 117, 100, 105, 111, 46, 109, 101, 116, 97, 100, 97,
                   116, 97>>
             -> "audio.metadata"
      [] value = <<116, 117, 114, 110, 46, 101, 110, 100>> -> "turn.end"
      [] value = <<114, 101, 115, 112, 111, 110, 115, 101>> -> "response"
      [] value = <<97, 117, 100, 105, 111>> -> "audio"
      [] OTHER -> "other"

\* The Path values the read loop tells apart; every other one is "other".
PathName(value) ==
    CASE value = <<97, 117, 100, 105, 111, 46, 109, 101, 116, 97, 100, 97,
                   116, 97>>
             -> "audio.metadata"
      [] value = <<116, 117, 114, 110, 46, 101, 110, 100>> -> "turn.end"
      [] value = <<114, 101, 115, 112, 111, 110, 115, 101>> -> "response"
      [] value = <<116, 117, 114, 110, 46, 115, 116, 97, 114, 116>> -> "turn.start"
      [] value = <<97, 117, 100, 105, 111>> -> "audio"
      [] OTHER -> "other"

\* A read loop that takes every Content-Type it is given for audio/mpeg.
ContentTypeNameAny(value) == IF value = <<>> THEN "" ELSE "audio/mpeg"

\* The Content-Type values the read loop tells apart.
ContentTypeName(value) ==
    CASE value = <<97, 117, 100, 105, 111, 47, 109, 112, 101, 103>> -> "audio/mpeg"
      [] value = <<>> -> ""
      [] OTHER -> "other"

\* What the read loop makes of a text message (the frame of Part II it is).
TextFrameOf(data) ==
    LET he == headerEnd(data)
        hd == GetHeadersAndData(data, he)
        path == PathName(HeaderValue(hd.headers, KeyPath))
        um == Unmarshal(hd.body)
    IN  IF he < 0 THEN TextFrame(FALSE, "", <<>>)
        ELSE IF path # "audio.metadata" THEN TextFrame(TRUE, path, <<>>)
        ELSE IF um.err # "none" THEN TextFrameBadJSON(path)
        ELSE TextFrame(TRUE, path, um.meta)

\* What the read loop makes of a binary message.
BinaryFrameOf(data) ==
    LET headerLength == Uint16(Slice(data, 0, 2))
        hd == GetHeadersAndData(BinaryPayload(data), headerLength)
    IN  IF Len(data) < 2 THEN BinaryFrame(FALSE, "", "", 0)
        ELSE IF headerLength + 2 > Len(data) THEN BinaryFrame(FALSE, "", "", 0)
        ELSE BinaryFrame(TRUE, PathName(HeaderValue(hd.headers, KeyPath)),
                         ContentTypeName(HeaderValue(hd.headers, KeyContentType)),
                         Len(hd.body))

FrameOf(w) ==
    IF w.msgType = "text" THEN TextFrameOf(w.data) ELSE BinaryFrameOf(w.data)

\* The body the read loop has cut out of the message when it dispatches on
\* its headers; none when it left the message before.
BodyOf(w) ==
    IF w.msgType = "text"
    THEN IF headerEnd(w.data) < 0 THEN <<>>
         ELSE GetHeadersAndData(w.data, headerEnd(w.data)).body
    ELSE IF Len(w.data) < 2 \/ Uint16(Slice(w.data, 0, 2)) + 2 > Len(w.data)
         THEN <<>>
         ELSE GetHeadersAndData(BinaryPayload(w.data),
                                Uint16(Slice(w.data, 0, 2))).body

\* The slices and index expressions the read loop and GetHeadersAndData
\* evaluate on a message, each as <<low, high, length of the sliced bytes>>:
\* data[i..i+3] of the search for the blank line, data[:2], data[2:],
\* data[:headerLength] and data[bodyStart:].
SlicesTaken(w) ==
    LET n == Len(w.data)
        he == headerEnd(w.data)
        h == Uint16(Slice(w.data, 0, 2))
    IN  IF w.msgType = "text"
        THEN { <<i, i + 4, n>> : i \in 0..(IF he < 0 THEN n - 4 ELSE he) }
             \cup (IF he < 0 THEN {} ELSE {<<0, he, n>>, <<he, n, n>>})
        ELSE IF n < 2 THEN {}
        ELSE IF h + 2 > n THEN {<<0, 2, n>>}
        ELSE {<<0, 2, n>>, <<2, n, n>>, <<0, h, n - 2>>, <<h, n - 2, n - 2>>}

(* ------------------------ the server's messages ----------------------- *)

Message(msgType, data) == [msgType |-> msgType, data |-> data]

\* A text message: a header block, the blank line, a body.
TextMessage(headerBlock, payload) ==
    Message("text", headerBlock \o CRLFCRLF \o payload)

\* A binary message: the length of the header block, the block, a body.
BinaryMessage(headerBlock, payload) ==
    Message("binary", PutUint16(Len(headerBlock)) \o headerBlock \o payload)

\* "X-RequestId:1\r\nPath:audio.metadata"
MetadataHeaders ==
    <<88, 45, 82, 101, 113, 117, 101, 115, 116, 73, 100, 58, 49, 13, 10, 80,
      97, 116, 104, 58, 97, 117, 100, 105, 111, 46, 109, 101, 116, 97, 100,
      97, 116, 97>>

\* "X-RequestId:1\r\nContent-Type:audio/mpeg\r\nPath:audio\r\n"
AudioHeaders ==
    <<88, 45, 82, 101, 113, 117, 101, 115, 116, 73, 100, 58, 49, 13, 10, 67,
      111, 110, 116, 101, 110, 116, 45, 84, 121, 112, 101, 58, 97, 117, 100,
      105, 111, 47, 109, 112, 101, 103, 13, 10, 80, 97, 116, 104, 58, 97,
      117, 100, 105, 111, 13, 10>>

\* The header blocks of the messages, with their text.
\* "Path:turn.end"
PathTurnEnd ==
    <<80, 97, 116, 104, 58, 116, 117, 114, 110, 46, 101, 110, 100>>

\* "Path:response"
PathResponse ==
    <<80, 97, 116, 104, 58, 114, 101, 115, 112, 111, 110, 115, 101>>

\* "Path:turn.start"
PathTurnStart ==
    <<80, 97, 116, 104, 58, 116, 117, 114, 110, 46, 115, 116, 97, 114, 116>>

\* "Path:unknown"
PathUnknown ==
    <<80, 97, 116, 104, 58, 117, 110, 107, 110, 111, 119, 110>>

\* "Path:turn.end:x"
PathWithColon ==
    <<80, 97, 116, 104, 58, 116, 117, 114, 110, 46, 101, 110, 100, 58, 120>>

\* "X:1"
NoPathHeader ==
    <<88, 58, 49>>

\* "Path:audio"
PathAudio ==
    <<80, 97, 116, 104, 58, 97, 117, 100, 105, 111>>

\* "Path:response\r\nPath:turn.end"
PathTwice ==
    <<80, 97, 116, 104, 58, 114, 101, 115, 112, 111, 110, 115, 101, 13, 10,
      80, 97, 116, 104, 58, 116, 117, 114, 110, 46, 101, 110, 100>>

\* "Path:audio\r\n"
PathAudioBlock ==
    <<80, 97, 116, 104, 58, 97, 117, 100, 105, 111, 13, 10>>

\* "Content-Type:audio/wav\r\nPath:audio\r\n"
WavHeaders ==
    <<67, 111, 110, 116, 101, 110, 116, 45, 84, 121, 112, 101, 58, 97, 117,
      100, 105, 111, 47, 119, 97, 118, 13, 10, 80, 97, 116, 104, 58, 97, 117,
      100, 105, 111, 13, 10>>

\* "Content-Type:audio/mpeg\r\nPath:other\r\n"
OtherPathHeaders ==
    <<67, 111, 110, 116, 101, 110, 116, 45, 84, 121, 112, 101, 58, 97, 117,
      100, 105, 111, 47, 109, 112, 101, 103, 13, 10, 80, 97, 116, 104, 58,
      111, 116, 104, 101, 114, 13, 10>>

\* "Content-Type:audio/mpeg\r\n"
NoPathHeaders ==
    <<67, 111, 110, 116, 101, 110, 116, 45, 84, 121, 112, 101, 58, 97, 117,
      100, 105, 111, 47, 109, 112, 101, 103, 13, 10>>

\* Two bytes of MP3.
AudioBody == <<255, 243>>

MetadataMessages == { TextMessage(MetadataHeaders, JsonOf(m)) : m \in WireMetas }

TextMessages ==
    MetadataMessages \cup
    { \* a body that is no JSON document
      TextMessage(MetadataHeaders, <<123>>),
      \* "Path:turn.end", "Path:response" with the body "{}", "Path:turn.start"
      TextMessage(PathTurnEnd, <<>>),
      TextMessage(PathResponse, <<123, 125>>),
      TextMessage(PathTurnStart, <<>>),
      \* "Path:unknown", "Path:turn.end:x", "X:1" (no Path), "Path:audio"
      TextMessage(PathUnknown, <<>>),
      TextMessage(PathWithColon, <<>>),
      TextMessage(NoPathHeader, <<>>),
      TextMessage(PathAudio, AudioBody),
      \* "Path:response\r\nPath:turn.end": the same key twice
      TextMessage(PathTwice, <<>>),
      \* "Path:response", the blank line, then "Path:turn.end" and a blank line
      TextMessage(PathResponse, PathTurnEnd \o CRLFCRLF),
      \* no blank line: "Path:turn.end\r\n", "\r\n\r" and the empty message
      Message("text", PathTurnEnd \o CRLF),
      Message("text", <<13, 10, 13>>),
      Message("text", <<>>),
      \* the blank line first: no header
      Message("text", CRLFCRLF \o PathTurnEnd) }

BinaryMessages ==
    { BinaryMessage(AudioHeaders, AudioBody),
      BinaryMessage(AudioHeaders, <<>>),
      \* "Path:audio\r\n": no Content-Type
      BinaryMessage(PathAudioBlock, <<>>),
      BinaryMessage(PathAudioBlock, AudioBody),
      \* "Content-Type:audio/wav\r\nPath:audio\r\n"
      BinaryMessage(WavHeaders, AudioBody),
      BinaryMessage(WavHeaders, <<>>),
      \* "Content-Type:audio/mpeg\r\nPath:other\r\n" and no Path
      BinaryMessage(OtherPathHeaders, AudioBody),
      BinaryMessage(NoPathHeaders, AudioBody),
      \* no header block, with and without a body
      BinaryMessage(<<>>, AudioBody),
      BinaryMessage(<<>>, <<>>),
      \* shorter than its two length bytes
      Message("binary", <<>>),
      Message("binary", <<0>>),
      \* a header length beyond the message: by one, and by far
      Message("binary", PutUint16(Len(AudioHeaders) + 1) \o AudioHeaders),
      Message("binary", <<1, 0>> \o AudioHeaders \o AudioBody) }

WireMessages == TextMessages \cup BinaryMessages

(* --------------------------- the read loop ---------------------------- *)

\* msgType, data, err := conn.ReadMessage() returned a message of the server:
\* what the read loop makes of it and does with it.
SessionReadWire ==
    /\ iPc = "read"
    /\ \E w \in WireMessages :
           /\ SessionReadFrame(FrameOf(w))
           /\ wire' = w
           /\ body' = BodyOf(w)
    /\ UNCHANGED <<nTexts, StreamWasCalled, LastDurationOffset, PartialText,
                   ctxDone, calls, sVars, outVars, inCh, cVars, emitted, sentErrs,
                   dials, dialDate, written, cancelDuring, splitVars, subVars, stampVars,
                   drmVars, cfgVars, raceVars>>

\* The session of the first text of a Stream call has dialled, has written its
\* two frames and is at the top of its read loop; the goroutine of Stream and
\* the consumer wait for its chunks.
SessionInLoop ==
    /\ StreamWasCalled = TRUE
    /\ OffsetCompensation = 0
    /\ LastDurationOffset = 0
    /\ PartialText = 1
    /\ ctxDone = FALSE
    /\ calls = 1
    /\ sPc = "select" /\ sIdx = 1 /\ sHold = NoChunk
    /\ outCh = <<>> /\ outClosed = FALSE /\ outErr = <<>> /\ outErrClosed = FALSE
    /\ iPc = "loop" /\ iHold = NoChunk /\ iFrame = NoFrame /\ audioReceived = FALSE
    /\ connOpen = TRUE /\ frames = 0
    /\ inCh = <<>> /\ inClosed = FALSE /\ inErr = <<>> /\ inErrClosed = FALSE
    /\ cPc = "recv" /\ cChunks = <<>> /\ cRet = "none"
    /\ emitted = <<>> /\ sentErrs = <<>> /\ dials = 1 /\ dialDate = 0 /\ sessLog = <<>>
    /\ written = <<"config", "ssml">>
    /\ sessAudio = FALSE
    /\ lastRaw = -1 /\ rawMonotone = TRUE /\ cancelDuring = 0

FrameInit ==
    /\ nTexts = 1
    /\ SessionInLoop
    /\ SplitIdle
    /\ SubIdle
    /\ StampIdle
    /\ DrmIdle
    /\ ConfigIdle
    /\ WireIdle
    /\ RaceIdle

FrameNext ==
    \/ SessionLoopTop
    \/ SessionReadWire
    \/ SessionSend
    \/ StreamRecvChunk
    \/ StreamSendChunk
    \/ ConsumerRecvChunk

\* One session in its read loop, the server sending the messages of
\* WireMessages, with the goroutine of Stream and the consumer passing its
\* chunks on.
FrameSpec == FrameInit /\ [][FrameNext]_vars

(***************************************************************************)
(*           Part VII.  Stream calls that run at the same time             *)
(***************************************************************************)

\* What the actions of this part leave alone.
raceRest ==
    <<nTexts, OffsetCompensation, LastDurationOffset, ctxDone, calls, sVars, outVars,
      iVars, inVars, cVars, histVars, splitVars, subVars, stampVars, drmVars,
      cfgVars, wireVars>>

\* What a read of c.state.StreamWasCalled yields.  The field is read and
\* written with no lock and no channel operation between the goroutines: a
\* read that follows the write of another goroutine yields the value written
\* or the one before it.
FlagReads == IF StreamWasCalled THEN {TRUE, FALSE} ELSE {FALSE}

\* c.Stream(ctx) is called: the goroutine g of the call starts.
RaceCall(g) ==
    /\ rPc[g] = "none"
    /\ rPc' = [rPc EXCEPT ![g] = "check"]
    /\ UNCHANGED <<StreamWasCalled, PartialText, rIdx, rErrs, rDials, raceRest>>

\* if c.state.StreamWasCalled { errCh <- ErrStreamAlreadyCalled; return }
RaceCheck(g) ==
    /\ rPc[g] = "check"
    /\ \E seen \in FlagReads :
           IF seen
           THEN /\ rErrs' = [rErrs EXCEPT ![g] = Append(@, "ErrStreamAlreadyCalled")]
                /\ rPc' = [rPc EXCEPT ![g] = "done"]
           ELSE /\ rPc' = [rPc EXCEPT ![g] = "set"]
                /\ UNCHANGED rErrs
    /\ UNCHANGED <<StreamWasCalled, PartialText, rIdx, rDials, raceRest>>

\* c.state.StreamWasCalled = true
RaceSetFlag(g) ==
    /\ rPc[g] = "set"
    /\ StreamWasCalled' = TRUE
    /\ rPc' = [rPc EXCEPT ![g] = "for"]
    /\ rIdx' = [rIdx EXCEPT ![g] = 1]
    /\ UNCHANGED <<PartialText, rErrs, rDials, raceRest>>

\* for _, text := range c.texts { c.state.PartialText = text; c.stream(ctx) ... }:
\* the next session of g is started, or g returns after the last text.
RaceFor(g) ==
    /\ rPc[g] = "for"
    /\ IF rIdx[g] > nTexts
       THEN /\ rPc' = [rPc EXCEPT ![g] = "done"]
            /\ UNCHANGED <<PartialText, rDials>>
       ELSE /\ PartialText' = rIdx[g]
            /\ rDials' = [rDials EXCEPT ![g] = @ + 1]
            /\ rPc' = [rPc EXCEPT ![g] = "dial"]
    /\ UNCHANGED <<StreamWasCalled, rIdx, rErrs, raceRest>>

\* dialer.DialContext in the session of g: the connection is open, or the
\* session ends with the dial error, which g forwards before it returns.
RaceDial(g) ==
    /\ rPc[g] = "dial"
    /\ \/ /\ rPc' = [rPc EXCEPT ![g] = "session"]
          /\ UNCHANGED rErrs
       \/ /\ rErrs' = [rErrs EXCEPT ![g] = Append(@, "dial")]
          /\ rPc' = [rPc EXCEPT ![g] = "done"]
    /\ UNCHANGED <<StreamWasCalled, PartialText, rIdx, rDials, raceRest>>

\* The session of g ends and closes its connection: without an error, and g
\* goes on to its next text, or with one, which g forwards before it returns.
RaceSessionEnds(g) ==
    /\ rPc[g] = "session"
    /\ \/ /\ rIdx' = [rIdx EXCEPT ![g] = @ + 1]
          /\ rPc' = [rPc EXCEPT ![g] = "for"]
          /\ UNCHANGED rErrs
       \/ /\ rErrs' = [rErrs EXCEPT ![g] = Append(@, "session")]
          /\ rPc' = [rPc EXCEPT ![g] = "done"]
          /\ UNCHANGED rIdx
    /\ UNCHANGED <<StreamWasCalled, PartialText, rDials, raceRest>>

RaceInit ==
    /\ nTexts \in 1..MaxTexts
    /\ StreamIdle
    /\ SplitIdle
    /\ SubIdle
    /\ StampIdle
    /\ DrmIdle
    /\ ConfigIdle
    /\ WireIdle
    /\ RaceIdle

RaceNext ==
    \E g \in Racers :
        \/ RaceCall(g)
        \/ RaceCheck(g)
        \/ RaceSetFlag(g)
        \/ RaceFor(g)
        \/ RaceDial(g)
        \/ RaceSessionEnds(g)

\* One Communicate, and MaxRacers Stream calls on it whose goroutines run at
\* the same time.
RaceSpec == RaceInit /\ [][RaceNext]_vars

(***************************************************************************)
(*                 Claims about the text preparer (SplitSpec)              *)
(***************************************************************************)

\* The XML entities html.EscapeString writes, without their '&'.
EntityTails ==
    { <<97, 109, 112, 59>>, <<108, 116, 59>>, <<103, 116, 59>>,
      <<35, 51, 52, 59>>, <<35, 51, 57, 59>> }

\* s is the output of EscapeXML: no raw < > " ', and every '&' starts an entity.
IsEscaped(s) ==
    \A i \in 1..Len(s) :
        /\ s[i] \notin {60, 62, 34, 39}
        /\ s[i] = 38 =>
              \E e \in EntityTails :
                  /\ i + Len(e) <= Len(s)
                  /\ SubSeq(s, i + 1, i + Len(e)) = e

\* s is an output of RemoveIncompatibleCharacters.
IsCleaned(s) ==
    \A i \in 1..Len(s) : ~(s[i] <= 8 \/ s[i] \in 11..12 \/ s[i] \in 14..31)

RECURSIVE SpaceFrom(_, _)
\* The positions (1-based) of the bytes of s, from i on, that belong to a
\* white-space rune.
SpaceFrom(s, i) ==
    IF i > Len(s) THEN {}
    ELSE LET k == RuneLen(s, i)
             w == IF k = 0 THEN 1 ELSE k
         IN  (IF k > 0 /\ IsSpaceRune(SubSeq(s, i, i + k - 1))
              THEN i..(i + k - 1) ELSE {})
             \cup SpaceFrom(s, i + w)

RECURSIVE Keep(_, _, _)
\* The bytes of s at the positions from i on that are not in drop, in order.
Keep(s, drop, i) ==
    IF i > Len(s) THEN <<>>
    ELSE (IF i \in drop THEN <<>> ELSE <<s[i]>>) \o Keep(s, drop, i + 1)

\* The offsets at which text was cut, and its two ends.
Boundaries == {0, Len(text)} \cup { cuts[i] : i \in 1..Len(cuts) }

\* The positions of the white-space bytes of text that only white space
\* separates from a cut or from an end of text.
NextToBoundary ==
    LET ws == SpaceFrom(text, 1)
    IN  { p \in ws :
            \E c \in Boundaries :
                IF c >= p THEN \A q \in p..c : q \in ws
                ELSE \A q \in (c + 1)..p : q \in ws }

ChunksBoundedAndValid ==
    \A i \in 1..Len(result) :
        /\ Len(result[i]) <= byteLength
        /\ utf8Valid(result[i])

\* C8, as stated: for every valid UTF-8 text and every budget L >= 1, every
\* returned chunk has at most L bytes and is valid UTF-8.
C8_Original ==
    (splitPc = "done" /\ utf8Valid(text) /\ byteLength >= 1)
        => ChunksBoundedAndValid

\* C8, amended: for every valid UTF-8 text and every budget L >= 4 (the length
\* of the longest UTF-8 encoding), every returned chunk has at most L bytes and
\* is valid UTF-8.
C8_BoundedValidFromFour ==
    (splitPc = "done" /\ utf8Valid(text) /\ byteLength >= 4)
        => ChunksBoundedAndValid

\* A text with no white space in its first L >= 4 bytes and a rune lying across
\* byte L was split: the split point stepped back to the rune's start.
C8_Witness ==
    /\ splitPc = "done"
    /\ byteLength >= 4
    /\ Len(text) > byteLength
    /\ findLastNewlineOrSpaceWithinLimit(text, byteLength) < 0
    /\ findSafeUTF8SplitPoint(Slice(text, 0, byteLength)) < byteLength
    /\ Len(result) >= 2

\* C9: for an XML-escaped, cleaned text and a budget L > 16, the concatenation
\* of the chunks is the text without the white-space bytes that only white
\* space separates from a split point or from an end of the text; every other
\* byte is there once and in its place.
C9_LossPreserving ==
    (splitPc = "done" /\ byteLength > 16 /\ IsEscaped(text) /\ IsCleaned(text))
        => Flatten(result) = Keep(text, NextToBoundary, 1)

\* Such a text was cut and lost white space at the cut.
C9_Witness ==
    /\ splitPc = "done"
    /\ byteLength > 16
    /\ IsEscaped(text) /\ IsCleaned(text)
    /\ Len(cuts) >= 1
    /\ \E i \in 1..Len(cuts) : cuts[i] + 1 \in NextToBoundary
    /\ Len(result) >= 2

\* C10: for an XML-escaped text and a budget L > 16, every '&' of a chunk has a
\* ';' after it in the same chunk.
C10_NoEntityCut ==
    (splitPc = "done" /\ byteLength > 16 /\ IsEscaped(text))
        => \A i \in 1..Len(result) :
              \A j \in 1..Len(result[i]) :
                  result[i][j] = 38 =>
                      \E k \in (j + 1)..Len(result[i]) : result[i][k] = 59

\* An entity lay across byte L of such a text, and the split point moved back
\* to its '&'.
C10_Witness ==
    /\ splitPc = "done"
    /\ byteLength > 16
    /\ IsEscaped(text)
    /\ Len(text) > byteLength
    /\ findLastNewlineOrSpaceWithinLimit(text, byteLength) < 0
    /\ LET s1 == findSafeUTF8SplitPoint(Slice(text, 0, byteLength))
       IN  /\ adjustSplitPointForXMLEntity(text, s1) < s1
           /\ adjustSplitPointForXMLEntity(text, s1) > 0
           /\ cuts[1] = adjustSplitPointForXMLEntity(text, s1)



\* The number of bytes "b" of the scenario's text.
RunLength == Len(text) - 2

\* C11 as stated: splitting "a", one space and n bytes "b" with a budget L < n
\* yields exactly two chunks, the first ending at the white space at or before
\* byte L, and the concatenation of the two chunks equals the input.
C11_Original ==
    splitPc = "done" =>
        /\ Len(result) = 2
        /\ cuts[1] <= byteLength
        /\ text[cuts[1] + 1] = 32
        /\ Flatten(result) = text

\* C11: splitting "a", one space and n bytes "b" with a budget L < n yields
\* 1 + ceil(n / L) chunks: "a", cut at the space, then the n bytes "b" in runs
\* of L bytes, the last run holding the rest; the concatenation of the chunks
\* is the input without its space.
C11_SpaceThenRunsOfBudget ==
    splitPc = "done" =>
        LET runs == (RunLength + byteLength - 1) \div byteLength
        IN  /\ Len(result) = 1 + runs
            /\ result[1] = <<97>>
            /\ cuts[1] = 1
            /\ text[cuts[1] + 1] = 32
            /\ \A i \in 2..Len(result) :
                   result[i] = RunOfB(IF i < Len(result) THEN byteLength
                                      ELSE RunLength - (runs - 1) * byteLength)
            /\ Flatten(result) = <<97>> \o RunOfB(RunLength)

C11_Witness ==
    /\ splitPc = "done"
    /\ byteLength >= 2
    /\ Len(result) = 3
    /\ Len(result[2]) = byteLength
    /\ Len(result[3]) < byteLength

(***************************************************************************)
(*          Claims about Communicate.Stream and its consumers (Spec)       *)
(***************************************************************************)

Last(seq) == seq[Len(seq)]

IsPrefix(p, q) == Len(p) <= Len(q) /\ SubSeq(q, 1, Len(p)) = p

\* The chunks the goroutine of Stream has put on its chunk channel: those the
\* consumer has received, then those still in the channel.
Delivered == cChunks \o outCh

\* C1: a Communicate's Stream runs at most once.  A call after the first
\* delivers exactly ErrStreamAlreadyCalled on its error channel, no chunk, and
\* opens no connection; StreamWasCalled, once true, never becomes false again.
C1_LaterCallRefused ==
    calls >= 2 =>
        /\ Delivered = <<>>
        /\ sHold = NoChunk
        /\ emitted = <<>>
        /\ dials = 0
        /\ sPc \in {"check", "done"}
        /\ sPc = "done" => sentErrs = <<"ErrStreamAlreadyCalled">>

C1_FlagStaysSet == [][StreamWasCalled => StreamWasCalled']_vars

C1_StreamOnce == []C1_LaterCallRefused /\ C1_FlagStaysSet

C1_Witness ==
    /\ calls = 2
    /\ nTexts >= 1
    /\ OffsetCompensation > 0
    /\ sPc = "done"
    /\ StreamWasCalled
    /\ sentErrs = <<"ErrStreamAlreadyCalled">>
    /\ cRet = "ErrStreamAlreadyCalled"

\* The boundary chunks among the chunks of seq.
BoundariesOf(seq) == SelectSeq(seq, IsBoundary)

NonDecreasingOffsets(seq) ==
    \A i \in 1..(Len(seq) - 1) : seq[i].Offset <= seq[i + 1].Offset

\* C2: the Offsets of the boundary events a Stream call delivers are
\* non-decreasing over its whole output, whenever within each session the
\* server's raw offsets are non-negative and non-decreasing and the durations
\* are non-negative.
C2_OffsetsNonDecreasing ==
    rawMonotone => NonDecreasingOffsets(BoundariesOf(Delivered))

\* C3: whenever a Stream call puts an error on its error channel, its consumer
\* (StreamToWriter, StreamSync, Save) returns a non-nil error.
C3_ErrorReturned ==
    (cPc = "returned" /\ sentErrs # <<>>) => cRet # "nil"

\* C4: the chunks a Stream call delivers are a prefix of the chunks its
\* sessions emitted, in the order they emitted them; when the call ends without
\* an error they are all of them, text after text: nothing is lost, duplicated
\* or reordered.
C4_InOrderNoLoss ==
    /\ IsPrefix(Delivered, emitted)
    /\ (sPc = "done" /\ sentErrs = <<>>) =>
           /\ Delivered = emitted
           /\ \A i \in 1..(Len(Delivered) - 1) :
                  \/ Delivered[i].k < Delivered[i + 1].k
                  \/ /\ Delivered[i].k = Delivered[i + 1].k
                     /\ Delivered[i].n < Delivered[i + 1].n

C4_Witness ==
    /\ sPc = "done"
    /\ sentErrs = <<>>
    /\ cRet = "nil"
    /\ Len(cChunks) = 3
    /\ cChunks = emitted
    /\ cChunks[1].k = 1
    /\ cChunks[3].k = 2

\* The goroutine of Stream is blocked in chunkCh <- chunk: the channel is full
\* and its consumer has returned.
StreamStuck ==
    /\ sPc = "send"
    /\ Len(outCh) = ChanCap
    /\ cPc = "returned"

\* The session goroutine is blocked in chunkCh <- ...: the inner channel is
\* full and the goroutine of Stream receives no more.
SessionStuck ==
    /\ iPc = "send"
    /\ Len(inCh) = ChanCap
    /\ (sPc = "done" \/ StreamStuck)

\* C5: on every exit path every session goroutine terminates and closes its
\* connection: no goroutine stays blocked forever sending on a chunk channel.
C5_NoGoroutineLeft == ~StreamStuck /\ ~SessionStuck

\* The Stream call in progress was cancelled while one of its sessions ran.
CancelledInProgress == calls >= 1 /\ cancelDuring = calls

AllSessionsClean ==
    /\ Len(sessLog) = nTexts
    /\ \A i \in DOMAIN sessLog : sessLog[i].err = "none"

C6_EndsAsCancelledOrAsSession ==
    (CancelledInProgress /\ sPc = "done") =>
        \/ sentErrs = <<"ctx">>
        \/ /\ sessLog # <<>>
           /\ Last(sessLog).err # "none"
           /\ sentErrs = <<Last(sessLog).err>>
        \/ /\ sentErrs = <<>>
           /\ AllSessionsClean

C6_StreamEnds ==
    (ctxDone /\ sPc \notin {"none", "done"}) ~>
        ((sPc = "done" /\ outClosed /\ outErrClosed) \/ cPc = "returned")

C7_NoAudioIsAnError ==
    /\ \A i \in DOMAIN sessLog :
           LET e == sessLog[i]
           IN  /\ (e.how \in {"turnEnd", "closeNormal"} /\ ~e.audio)
                      => e.err = "ErrNoAudioReceived"
               /\ (e.how = "turnEnd" /\ e.audio) => e.err = "none"
    /\ (sPc = "done" /\ \E i \in DOMAIN sessLog :
                            sessLog[i].err = "ErrNoAudioReceived")
           => sentErrs # <<>>

C7_Witness ==
    /\ sPc = "done"
    /\ Len(sessLog) = 2
    /\ sessLog[1] = [k |-> 1, how |-> "turnEnd", audio |-> TRUE, err |-> "none"]
    /\ sessLog[2] = [k |-> 2, how |-> "turnEnd", audio |-> FALSE,
                     err |-> "ErrNoAudioReceived"]
    /\ sentErrs = <<"ErrNoAudioReceived">>
    /\ cRet = "ErrNoAudioReceived"

(***************************************************************************)
(*     Claims about SubMaker and the SRT composer (SubSpec, StampSpec)     *)
(***************************************************************************)

BoundaryKinds == {"WordBoundary", "SentenceBoundary"}

C12_OneKindIndexed ==
    /\ Len(fedTypes) = Len(Cues)
    /\ Cues # <<>> => CueType \in BoundaryKinds
    /\ \A i \in 1..Len(Cues) :
           /\ fedTypes[i] = CueType
           /\ Cues[i].Index = i

C12_RejectedFeedChangesNothing ==
    [][/\ feedRet' = "error" => (Cues' = Cues /\ CueType' = CueType)
       /\ Cues' # Cues => /\ feedRet' = "nil"
                          /\ Len(Cues') = Len(Cues) + 1
                          /\ SubSeq(Cues', 1, Len(Cues)) = Cues]_vars

\* C12: the first accepted event fixes the cue kind of a SubMaker; a Feed of
\* an event of the other boundary kind, or of a chunk that is no boundary,
\* returns an error and leaves Cues and CueType unchanged, so all stored cues
\* come from events of one kind and the i-th stored cue has Index i.
C12_FeedKeepsOneKind == []C12_OneKindIndexed /\ C12_RejectedFeedChangesNothing

C12_Witness ==
    /\ Len(Cues) = 2
    /\ CueType = "WordBoundary"
    /\ feedRet = "error"
    /\ Cues[2].Index = 2

\* C13: in the output of GetSRT the surviving cues are numbered 1, 2, ..., k
\* in output order, whichever cues were skipped before a survivor.
C13_NumberedFromOne ==
    srtPc = "composed" => \A j \in 1..Len(srt) : srt[j].index = j

\* The stored cue c is one GetSRT has to render.
Survives(c) ==
    /\ TrimSpace(c.Content) # <<>>
    /\ c.Start >= 0
    /\ c.Start < c.End

Kept == { i \in 1..Len(Cues) : Survives(Cues[i]) }

\* Cue i comes before cue j in the order by (start, end, original index).
ComesBefore(i, j) ==
    \/ Cues[i].Start < Cues[j].Start
    \/ Cues[i].Start = Cues[j].Start /\ Cues[i].End < Cues[j].End
    \/ Cues[i].Start = Cues[j].Start /\ Cues[i].End = Cues[j].End /\ i < j

Rank(i) == 1 + Cardinality({ j \in Kept : ComesBefore(j, i) })

\* C14: GetSRT renders exactly the stored cues with non-empty trimmed content,
\* start >= 0 and start < end, each once, ordered by (start, end, original
\* index); no other cue appears in the output.
C14_RendersSurvivorsInOrder ==
    srtPc = "composed" =>
        /\ Len(srt) = Cardinality(Kept)
        /\ \A i \in Kept :
               LET b == srt[Rank(i)]
               IN  /\ b.from = i
                   /\ b.start = timeDurationToSRTTimestamp(Milliseconds(Cues[i].Start))
                   /\ b.end = timeDurationToSRTTimestamp(Milliseconds(Cues[i].End))
                   /\ b.content = makeLegalContent(Cues[i].Content)

C14_Witness ==
    /\ srtPc = "composed"
    /\ Len(Cues) = 3
    /\ ~Survives(Cues[2])
    /\ Len(srt) = 2
    /\ srt[1].from = 3
    /\ srt[2].from = 1

\* C15: the content Subtitle.ToSRT writes has no leading newline, no trailing
\* newline and no run of two or more newlines.
C15_ContentSanitised ==
    srtPc = "composed" =>
        \A j \in 1..Len(srt) :
            LET c == srt[j].content
            IN  /\ c # <<>> => (c[1] # 10 /\ c[Len(c)] # 10)
                /\ ~HasNewlineRun(c)

RECURSIVE ParseDecimal(_)
\* The number a string of decimal digits denotes; -1 for any other string.
ParseDecimal(s) ==
    IF s = <<>> THEN -1
    ELSE IF s[Len(s)] \notin 48..57 THEN -1
    ELSE IF Len(s) = 1 THEN s[1] - 48
    ELSE LET high == ParseDecimal(SubSeq(s, 1, Len(s) - 1))
         IN  IF high < 0 THEN -1 ELSE 10 * high + (s[Len(s)] - 48)

\* The fields of a timestamp HH:MM:SS,mmm; -1 for a field that is not there.
StampFields(s) ==
    IF Len(s) = 12 /\ s[3] = 58 /\ s[6] = 58 /\ s[9] = 44
    THEN [hh |-> ParseDecimal(SubSeq(s, 1, 2)), mm |-> ParseDecimal(SubSeq(s, 4, 5)),
          ss |-> ParseDecimal(SubSeq(s, 7, 8)), ms |-> ParseDecimal(SubSeq(s, 10, 12))]
    ELSE [hh |-> -1, mm |-> -1, ss |-> -1, ms |-> -1]

\* C16: for an integer millisecond value m in [0, 86400000),
\* timeDurationToSRTTimestamp gives HH:MM:SS,mmm with MM < 60, SS < 60,
\* mmm < 1000 and ((HH*60 + MM)*60 + SS)*1000 + mmm = m: formatting then
\* reparsing is the identity.
C16_StampRoundTrip ==
    stampPc = "done" =>
        LET f == StampFields(stamp)
        IN  /\ f.hh >= 0 /\ f.mm \in 0..59 /\ f.ss \in 0..59 /\ f.ms \in 0..999
            /\ ((f.hh * 60 + f.mm) * 60 + f.ss) * 1000 + f.ms = stampMs

C16_Witness ==
    /\ stampPc = "done"
    /\ stampMs = 86399999
    /\ stamp = <<50, 51, 58, 53, 57, 58, 53, 57, 44, 57, 57, 57>>

(***************************************************************************)
(*                     Claims about the DRM (DrmSpec)                      *)
(***************************************************************************)

\* The number the spec gives for the corrected time t (in units):
\* floor((t + 11644473600) / 300) * 300 * 10000000.
WindowStartOf(t) ==
    [windows |-> WinEpochWindows + t \div (Window * UnitsPerSecond), excess |-> 0]

\* For a corrected time of whole seconds the number hashed is the start of
\* the window.
WholeSecondsHashWindowStart ==
    \A h \in hashed : h.t % UnitsPerSecond = 0 => h.n = WindowStartOf(h.t)

\* Two tokens made in the same window under the same skew hash the same number.
SameWindowSameSkewSameToken ==
    \A g, h \in hashed :
        (   g.skew = h.skew
         /\ g.t \div (Window * UnitsPerSecond) = h.t \div (Window * UnitsPerSecond))
        => g.n = h.n

\* C17: for every non-negative corrected time t and every skew, whole or
\* fractional, GenerateSecMSGEC hashes the decimal integer
\* floor((t + 11644473600) / 300) * 300 * 10000000.
C17_HashesWindowStart ==
    \A h \in hashed : h.n = WindowStartOf(h.t)

\* C18: after calibrations with the server date S that followed one another,
\* the wall clock and the skew left alone since, the corrected time is S: the
\* first calibration makes it S and a second one adds nothing to the skew.
C18_CalibratedClockIsServerTime ==
    (AllIdle /\ ~overlapped /\ Cardinality(calibrated) = 1)
    => \A S \in calibrated :
           wallClock * UnitsPerSecond + clockSkewSeconds = S * UnitsPerSecond

\* Both callers have calibrated with the same server date, one after the
\* other, and the skew is not zero.
C18_Witness ==
    /\ AllIdle
    /\ ~overlapped
    /\ calibrated = {300}
    /\ \A p \in Callers : drmRet[p] = "nil"
    /\ clockSkewSeconds # 0
    /\ wallClock * UnitsPerSecond + clockSkewSeconds = 300 * UnitsPerSecond

\* C19: a HandleClientResponseError given no response, a response without a
\* Date header or a Date in neither layout returns an error that wraps
\* ErrSkewAdjustment, and leaves the skew as it was.
C19_FailedCalibrationChangesNothing ==
    [][(   drmCalls' = drmCalls + 1
        /\ drmLast'.op = "HandleClientResponseError"
        /\ drmLast'.resp \in {"nil", "noHeader", "noDate", "other"})
       => /\ drmRet'[drmLast'.caller] = "ErrSkewAdjustment"
          /\ clockSkewSeconds' = clockSkewSeconds
          /\ drmPc' = drmPc]_vars

\* The skew is not zero, and the latest call, given a date in
\* neither layout, has returned the error.
C19_Witness ==
    /\ drmLast.op = "HandleClientResponseError"
    /\ drmLast.resp = "other"
    /\ drmRet[drmLast.caller] = "ErrSkewAdjustment"
    /\ clockSkewSeconds # 0
    /\ AllIdle

\* C20: after calibrations with the same server date S, interleaved in any
\* way, the wall clock left alone, the corrected time is S: the correction is
\* never applied twice.
C20_CalibrationAtomic ==
    (AllIdle /\ Cardinality(calibrated) = 1)
    => \A S \in calibrated :
           wallClock * UnitsPerSecond + clockSkewSeconds = S * UnitsPerSecond

(***************************************************************************)
(*        Claims about the sessions of Communicate.Stream (Spec)           *)
(***************************************************************************)

\* The latest session has ended on a handshake the server refused.
HandshakeRefused ==
    /\ iPc = "exited"
    /\ sessLog # <<>>
    /\ Last(sessLog).err = "dial"

\* C24: when the handshake of a session fails and the server's response
\* carries a Date header, the clock skew has been calibrated from that date
\* when the error is surfaced: the corrected time is the server's.  (With no
\* Date header the skew is unchanged.)
C24_CalibratedOnRefusedHandshake ==
    HandshakeRefused =>
        IF dialDate # 0
        THEN GetUnixTimestamp = dialDate * UnitsPerSecond
        ELSE clockSkewSeconds = 0

\* C25: a session ends without an error only after a turn.end frame: one
\* whose connection ends in another way, the server's normal closure after
\* some audio included, reports an error, and the texts after it are not
\* synthesized.
C25_CleanEndOnlyAfterTurnEnd ==
    \A i \in DOMAIN sessLog :
        /\ sessLog[i].err = "none" => sessLog[i].how = "turnEnd"
        /\ sessLog[i].how # "turnEnd" => i = Len(sessLog)

\* The value of OffsetCompensation + the raw offset is what a boundary is
\* emitted with, LastDurationOffset is the end of the last boundary emitted,
\* and a turn.end sets OffsetCompensation to LastDurationOffset + 8750000.
CompensationSteps ==
    [][/\ (iPc = "read" /\ iPc' = "send" /\ IsBoundary(iHold'))
           => \E b \in ServerBoundaries :
                  /\ iHold'.Offset = b[1] + OffsetCompensation
                  /\ iHold'.Duration = b[2]
       /\ (iPc = "send" /\ iPc' = "loop" /\ IsBoundary(iHold))
           => LastDurationOffset' = iHold.Offset + iHold.Duration
       /\ (iPc = "read" /\ iPc' = "exited" /\ Len(sessLog') > Len(sessLog)
              /\ Last(sessLog').how = "turnEnd")
           => OffsetCompensation' = LastDurationOffset + InterChunkCompensation
       /\ OffsetCompensation' >= OffsetCompensation]_vars

\* The end (Offset + Duration) of the last boundary among the chunks of seq;
\* 0 when there is none.
EndOfLastBoundary(seq) ==
    IF BoundariesOf(seq) = <<>> THEN 0
    ELSE Last(BoundariesOf(seq)).Offset + Last(BoundariesOf(seq)).Duration

\* The boundary a session has in hand is the first one of its text, and that
\* text is not the first.
FirstBoundaryOfLaterText ==
    /\ iPc = "send"
    /\ IsBoundary(iHold)
    /\ iHold.k >= 2
    /\ \A i \in DOMAIN emitted : ~(IsBoundary(emitted[i]) /\ emitted[i].k = iHold.k)

\* C26: the first boundary of text i+1, of raw offset o, is emitted with
\* offset o + (the end of the last boundary emitted so far) + 8750000.
C26_FirstBoundaryAfterLastEnd ==
    FirstBoundaryOfLaterText =>
        \E b \in ServerBoundaries :
            /\ iHold.Duration = b[2]
            /\ iHold.Offset = b[1] + EndOfLastBoundary(emitted) + InterChunkCompensation

\* The same for a boundary that follows sessions which all ended on turn.end.
FirstBoundaryAfterTurnEnds ==
    (\A i \in DOMAIN sessLog : sessLog[i].how = "turnEnd")
        => C26_FirstBoundaryAfterLastEnd

\* C27: every chunk a session emitted before it failed is delivered before
\* the channels of Stream close: when the goroutine of Stream has ended, the
\* context not cancelled, the chunks it passed on are all the chunks emitted.
C27_EmittedBeforeErrorDelivered ==
    (sPc = "done" /\ ~ctxDone) => Delivered = emitted

\* A session of the call has sent an error.
SomeSessionFailed == \E i \in DOMAIN sessLog : sessLog[i].err # "none"

\* C28: after a session fails Stream starts no session for the later texts;
\* a call sends exactly one error when it fails and none when it succeeds;
\* both channels are closed when its goroutine has ended; and no send on an
\* error channel blocks: the channel is empty whenever its goroutine runs.
C28_OneErrorThenClosed ==
    /\ \A i \in DOMAIN sessLog : sessLog[i].err # "none" => i = Len(sessLog)
    /\ SomeSessionFailed => ~SessionRunning
    /\ Len(sentErrs) <= 1
    /\ (sPc = "done" /\ SomeSessionFailed) => Len(sentErrs) = 1
    /\ (sPc = "done" /\ sentErrs = <<>>) => (AllSessionsClean /\ calls = 1)
    /\ sPc = "done" => (outClosed /\ outErrClosed)
    /\ sPc \notin {"none", "done"} => (outErr = <<>> /\ ~outErrClosed)
    /\ SessionRunning => (inErr = <<>> /\ ~inErrClosed)

\* Two texts; the session of the first sent a chunk and then failed, and
\* Stream passed the error on and started no second session.
C28_Witness ==
    /\ nTexts = 2
    /\ sPc = "done"
    /\ Len(sessLog) = 1
    /\ sessLog[1].err = "ErrUnknownResponse"
    /\ emitted # <<>>
    /\ sentErrs = <<"ErrUnknownResponse">>
    /\ outClosed /\ outErrClosed
    /\ dials = 1

\* A metadata frame all of whose entries are SessionEnd entries.
SessionEndOnly(f) ==
    /\ f.kind = "text"
    /\ f.ok
    /\ f.path = "audio.metadata"
    /\ f.meta # <<>>
    /\ \A i \in DOMAIN f.meta : f.meta[i].Type = "SessionEnd"

\* C29: a metadata frame that holds only SessionEnd entries is ignored: the
\* session that read it has not failed on it.
C29_SessionEndIgnored ==
    (iPc = "exited" /\ SessionEndOnly(iFrame)) => Last(sessLog).how # "fail"

\* A metadata frame with an entry that is no boundary and no SessionEnd.
HasUnknownEntry(f) ==
    /\ f.kind = "text"
    /\ f.ok
    /\ f.path = "audio.metadata"
    /\ \E i \in DOMAIN f.meta :
           f.meta[i].Type \notin {"WordBoundary", "SentenceBoundary", "SessionEnd"}

\* C30: a metadata frame with an entry of an unknown Type fails the session
\* with ErrUnknownResponse, wherever the entry stands in the frame.
C30_UnknownEntryFails ==
    HasUnknownEntry(iFrame) =>
        /\ iPc = "exited"
        /\ Last(sessLog).err = "ErrUnknownResponse"

(***************************************************************************)
(*          Claims about the frames of a session (FrameSpec)               *)
(***************************************************************************)

\* The places of the boundary entries of a metadata list.
BoundaryPlaces(meta) ==
    { i \in DOMAIN meta : meta[i].Type \in {"WordBoundary", "SentenceBoundary"} }

\* The first boundary entry of a metadata list that has one.
FirstBoundaryEntry(meta) ==
    meta[CHOOSE i \in BoundaryPlaces(meta) : \A j \in BoundaryPlaces(meta) : i <= j]

\* The session holds the one event of the metadata frame it read: it is built
\* from the first boundary entry of the frame, which only SessionEnd entries
\* precede.
OneEventOfFirstEntry ==
    (iPc = "send" /\ IsBoundary(iHold)) =>
        /\ iFrame = FrameOf(wire)
        /\ BoundaryPlaces(iFrame.meta) # {}
        /\ LET e == FirstBoundaryEntry(iFrame.meta)
           IN  /\ iHold.Type = e.Type
               /\ iHold.Offset = e.Offset + OffsetCompensation
               /\ iHold.Duration = e.Duration
               /\ iHold.n = frames
        /\ \A i \in DOMAIN iFrame.meta :
               (\A j \in BoundaryPlaces(iFrame.meta) : i < j)
                   => iFrame.meta[i].Type = "SessionEnd"

\* Each frame gives at most one event, and LastDurationOffset is the end of
\* the last boundary event emitted.
OneEventPerFrame ==
    /\ \A i \in 1..(Len(emitted) - 1) : emitted[i].n < emitted[i + 1].n
    /\ \A i \in DOMAIN emitted : emitted[i].n <= frames
    /\ LastDurationOffset = EndOfLastBoundary(emitted)

\* C31: for a metadata frame with several WordBoundary or SentenceBoundary
\* entries exactly one boundary event is emitted, built from the first such
\* entry in list order (SessionEnd entries before it are skipped); the later
\* entries produce no event and do not change LastDurationOffset.
C31_FirstBoundaryEntryOnly == OneEventOfFirstEntry /\ OneEventPerFrame

\* The frame SessionEnd, SentenceBoundary(1, 0), WordBoundary(0, 1) was read
\* and its one event, the sentence boundary, sent.
C31_Witness ==
    /\ FrameOf(wire).meta = <<Entry("SessionEnd", 0, 0),
                              Entry("SentenceBoundary", 1, 0),
                              Entry("WordBoundary", 0, 1)>>
    /\ iPc = "loop"
    /\ emitted = <<Chunk("SentenceBoundary", 1, 0, 1, 1)>>
    /\ LastDurationOffset = 1

\* The session has just taken the message wire' off the connection: the step
\* leaves conn.ReadMessage().
ReadsMessage == iPc = "read" /\ iPc' # "read"

\* The step fails the session with the error e, and emits nothing.
FailsWith(e) ==
    /\ iPc' = "exited"
    /\ Len(sessLog') = Len(sessLog) + 1
    /\ Last(sessLog').how = "fail"
    /\ Last(sessLog').err = e
    /\ inErr' = <<e>>
    /\ iHold' = NoChunk
    /\ UNCHANGED <<emitted, inCh, audioReceived, OffsetCompensation,
                   LastDurationOffset>>

\* The step goes back to the top of the read loop: nothing is emitted and the
\* state of the session and of the Communicate is as before.
SkipsMessage ==
    /\ iPc' = "loop"
    /\ iHold' = NoChunk
    /\ UNCHANGED <<emitted, inVars, connOpen, audioReceived, sessLog,
                   OffsetCompensation, LastDurationOffset, StreamWasCalled,
                   PartialText>>

\* The headers and the body of a binary message that holds its header block.
BinaryParts(data) ==
    GetHeadersAndData(Slice(data, 2, Len(data)), data[1] * 256 + data[2])

WellFormedBinary(w) ==
    /\ w.msgType = "binary"
    /\ Len(w.data) >= 2
    /\ 2 + (w.data[1] * 256 + w.data[2]) <= Len(w.data)

\* "audio" and "audio/mpeg"
AudioPath == <<97, 117, 100, 105, 111>>

AudioMpeg == <<97, 117, 100, 105, 111, 47, 109, 112, 101, 103>>

BinaryFrameHandled ==
    (ReadsMessage /\ WellFormedBinary(wire')) =>
        LET hd == BinaryParts(wire'.data)
            path == HeaderValue(hd.headers, KeyPath)
            ctype == HeaderValue(hd.headers, KeyContentType)
        IN  IF path # AudioPath THEN FailsWith("ErrUnexpectedResponse")
            ELSE IF ctype \notin {AudioMpeg, <<>>}
                 THEN FailsWith("ErrUnexpectedResponse")
            ELSE IF ctype = AudioMpeg /\ hd.body = <<>>
                 THEN FailsWith("ErrUnexpectedResponse")
            ELSE IF ctype = <<>> /\ hd.body # <<>>
                 THEN FailsWith("ErrUnexpectedResponse")
            ELSE IF ctype = <<>> THEN SkipsMessage
            ELSE /\ iPc' = "send"
                 /\ iHold'.Type = "audio"
                 /\ audioReceived'

OnlyMpegWithBodyEmitsAudio ==
    (ReadsMessage /\ iPc' = "send" /\ iHold'.Type = "audio") =>
        /\ WellFormedBinary(wire')
        /\ HeaderValue(BinaryParts(wire'.data).headers, KeyPath) = AudioPath
        /\ HeaderValue(BinaryParts(wire'.data).headers, KeyContentType) = AudioMpeg
        /\ BinaryParts(wire'.data).body # <<>>

\* C32: for a binary frame, a Path other than audio, a Content-Type other than
\* audio/mpeg or absent, audio/mpeg with an empty body, and an absent
\* Content-Type with a non-empty body each fail the session with
\* ErrUnexpectedResponse; an absent Content-Type with an empty body is skipped
\* without emitting a chunk and without counting as received audio; only
\* audio/mpeg with a non-empty body emits an audio chunk.
C32_BinaryFrameCases ==
    [][BinaryFrameHandled /\ OnlyMpegWithBodyEmitsAudio]_vars

\* A binary frame with the Path audio, no Content-Type and no body was
\* skipped: the session is back at the top of its loop, with no chunk emitted
\* and no audio received.
C32_Witness ==
    /\ wire = BinaryMessage(PathAudioBlock, <<>>)
    /\ iPc = "loop"
    /\ frames = 1
    /\ ~audioReceived
    /\ emitted = <<>>
    /\ sessLog = <<>>

\* The header length a binary message states: its first two bytes, the high
\* byte first.
StatedLength(data) == data[1] * 256 + data[2]

\* Every slice the read loop took of the message lies within the bytes sliced.
ReadsWithinMessage(w) ==
    \A sl \in SlicesTaken(w) : 0 <= sl[1] /\ sl[1] <= sl[2] /\ sl[2] <= sl[3]

BinaryFrameParsed ==
    (ReadsMessage /\ wire'.msgType = "binary") =>
        LET data == wire'.data
        IN  /\ ReadsWithinMessage(wire')
            /\ IF Len(data) < 2 \/ 2 + StatedLength(data) > Len(data)
               THEN FailsWith("ErrUnexpectedResponse")
               ELSE LET hd == BinaryParts(data)
                    IN  /\ body' = SubSeq(data, 3 + StatedLength(data), Len(data))
                        /\ (/\ HeaderValue(hd.headers, KeyPath) = AudioPath
                            /\ HeaderValue(hd.headers, KeyContentType) = AudioMpeg
                            /\ hd.body # <<>>)
                               => (iPc' = "send" /\ iHold'.Type = "audio")

\* The Data of the audio chunk the session holds is the body it cut out of
\* the message: the bytes of the message after its header block.
AudioDataIsBody ==
    (iPc = "send" /\ iHold.Type = "audio") =>
        /\ WellFormedBinary(wire)
        /\ body = SubSeq(wire.data, 3 + StatedLength(wire.data), Len(wire.data))
        /\ body # <<>>

\* C33: a binary frame shorter than 2 bytes, or whose big-endian 16-bit header
\* length h satisfies 2 + h > frame length, is rejected with
\* ErrUnexpectedResponse and no byte outside the frame is read; for an accepted
\* audio frame the emitted Data is exactly the frame bytes from position 2 + h
\* to the end, unmodified.
C33_BinaryFrameBounds == [][BinaryFrameParsed]_vars /\ []AudioDataIsBody

\* The audio message of 52 header bytes and 2 bytes of MP3 was accepted: the
\* session holds an audio chunk whose Data is these 2 bytes.
C33_Witness ==
    /\ wire = BinaryMessage(AudioHeaders, AudioBody)
    /\ Len(wire.data) = 56
    /\ iPc = "send"
    /\ iHold.Type = "audio"
    /\ body = <<255, 243>>

\* A message whose header length passes its end by one byte was rejected.
C33_Rejected ==
    /\ wire = Message("binary", PutUint16(Len(AudioHeaders) + 1) \o AudioHeaders)
    /\ iPc = "exited"
    /\ Last(sessLog).err = "ErrUnexpectedResponse"

\* The text message the session read last holds a blank line.
TextWithBlankLine ==
    /\ wire.msgType = "text"
    /\ Index(wire.data, CRLFCRLF) >= 0

\* The Path the read loop dispatches on is the value of the last Path line
\* before the first blank line, the line cut at its first ':'.
HeadersBeforeBlankLine ==
    (ReadsMessage /\ wire'.msgType = "text" /\ Index(wire'.data, CRLFCRLF) >= 0) =>
        LET block == Slice(wire'.data, 0, Index(wire'.data, CRLFCRLF))
            lines == bytesSplit(block, CRLF)
            paths == { i \in DOMAIN lines :
                         /\ Len(lines[i]) >= 5
                         /\ SubSeq(lines[i], 1, 5) = KeyPath \o <<58>> }
            value == IF paths = {} THEN <<>>
                     ELSE LET l == lines[CHOOSE i \in paths : \A j \in paths : j <= i]
                          IN  SubSeq(l, 6, Len(l))
        IN  FrameOf(wire').path = PathName(value)

\* The headers are taken as C34 says, in every step that reads a text frame.
HeadersParsed == [][HeadersBeforeBlankLine]_vars

\* C34: for a text frame, the parser takes the bytes before the first
\* \r\n\r\n as the headers (each line split on its first ':') and exactly the
\* bytes after that \r\n\r\n as the body: the body handed to the metadata
\* decoder does not contain the separator.
C34_BodyAfterBlankLine ==
    TextWithBlankLine =>
        body = Slice(wire.data, Index(wire.data, CRLFCRLF) + 4, Len(wire.data))

\* "audio.metadata", "turn.end", "response" and "turn.start"
MetadataPath == <<97, 117, 100, 105, 111, 46, 109, 101, 116, 97, 100, 97, 116, 97>>

TurnEndPath == <<116, 117, 114, 110, 46, 101, 110, 100>>

ResponsePath == <<114, 101, 115, 112, 111, 110, 115, 101>>

TurnStartPath == <<116, 117, 114, 110, 46, 115, 116, 97, 114, 116>>

\* The value of the Path header of a text message with a blank line.
TextPath(data) ==
    HeaderValue(GetHeadersAndData(data, Index(data, CRLFCRLF)).headers, KeyPath)

TextFrameHandled ==
    (ReadsMessage /\ wire'.msgType = "text" /\ Index(wire'.data, CRLFCRLF) >= 0) =>
        LET path == TextPath(wire'.data)
        IN  /\ path \in {ResponsePath, TurnStartPath} => SkipsMessage
            /\ path \notin {MetadataPath, TurnEndPath, ResponsePath, TurnStartPath}
                   => FailsWith("ErrUnknownResponse")
            /\ path = TurnEndPath =>
                   /\ iPc' = "exited"
                   /\ Last(sessLog').how = "turnEnd"
                   /\ UNCHANGED <<emitted, inCh, iHold>>

\* A session that has left its loop reads no frame and emits no event.
NothingAfterTheEnd ==
    iPc = "exited" => (iPc' = "exited" /\ UNCHANGED <<wire, frames, emitted, iHold>>)

\* C35: text frames with Path response or turn.start emit nothing and change
\* no session state; a text frame with any other Path than audio.metadata,
\* turn.end, response and turn.start fails the session with
\* ErrUnknownResponse; after turn.end no further frame of that session is read
\* and no further event is emitted for it.
C35_TextFrameCases == [][TextFrameHandled /\ NothingAfterTheEnd]_vars

\* A turn.start frame was skipped, nothing emitted and no error sent.
C35_Witness ==
    /\ wire = TextMessage(PathTurnStart, <<>>)
    /\ iPc = "loop"
    /\ frames = 1
    /\ emitted = <<>>
    /\ inErr = <<>>
    /\ sessLog = <<>>

\* A session ended on turn.end after an audio chunk, and its chunk has gone on
\* to the consumer.
C35_AfterTurnEnd ==
    /\ wire = TextMessage(PathTurnEnd, <<>>)
    /\ iPc = "exited"
    /\ Last(sessLog).how = "turnEnd"
    /\ Len(emitted) = 1
    /\ cChunks = emitted

(***************************************************************************)
(*     Claims about the order of the sessions and their frames (Spec,      *)
(*     ServedSpec, LoopSpec, RaceSpec)                                     *)
(***************************************************************************)

\* The session the variables of the session goroutine describe is one of the
\* latest Stream call.
SessionOfThisCall == SessionRunning \/ (iPc = "exited" /\ sessLog # <<>>)

BothFramesWritten == written = <<"config", "ssml">>

\* The session has taken a message off its connection.
HasRead == frames > 0 \/ iFrame # NoFrame \/ sessAudio \/ lastRaw # -1

WritesBeforeReads ==
    /\ written \in {<<>>, <<"config">>, <<"config", "ssml">>}
    /\ SessionOfThisCall =>
           /\ iPc \in {"dial", "writeConfig"} => written = <<>>
           /\ iPc = "writeSSML" => written = <<"config">>
           /\ iPc \in {"loop", "read", "send"} => BothFramesWritten
           /\ HasRead => BothFramesWritten
           /\ iPc = "exited" =>
                  LET e == Last(sessLog)
                  IN  /\ e.err \in {"dial", "dial: ctx", "writeConfig"}
                             => (written = <<>> /\ ~HasRead)
                      /\ e.err = "writeSSML" => (written = <<"config">> /\ ~HasRead)
                      /\ e.err \notin {"dial", "dial: ctx", "writeConfig", "writeSSML"}
                             => BothFramesWritten

\* A write that fails ends the session: the goroutine sends the error and
\* returns.
FailedWriteEndsSession ==
    (iPc \in {"writeConfig", "writeSSML"} /\ written' = written /\ iPc' # iPc) =>
        /\ iPc' = "exited"
        /\ inErr' = <<iPc>>
        /\ ~connOpen'
        /\ frames' = 0

\* C36: in every session the config frame is written first, the SSML frame
\* second, and no frame is read before both writes succeeded; exactly one
\* config frame and one SSML frame are written per session, and a failed write
\* ends the session with an error without reading.
C36_WritesThenReads == []WritesBeforeReads /\ [][FailedWriteEndsSession]_vars

\* The session of the first text wrote both frames, read audio and turn.end;
\* the session of the second wrote its config frame, and its SSML write
\* failed: it ended without reading.
C36_Witness ==
    /\ Len(sessLog) = 2
    /\ sessLog[1].err = "none"
    /\ sessLog[2].err = "writeSSML"
    /\ iPc = "exited"
    /\ written = <<"config">>
    /\ frames = 0
    /\ sentErrs = <<"writeSSML">>

\* The goroutine of Stream starts a session: innerChunkCh, innerErrCh := c.stream(ctx).
StartsSession == sPc = "for" /\ sPc' = "select"

\* A session is started for the text after the one of the session before it,
\* once that session has ended and its connection is closed.
SessionAfterSession ==
    StartsSession =>
        /\ iPc \in {"none", "exited"}
        /\ ~connOpen
        /\ PartialText' = Len(sessLog) + 1
        /\ dials = Len(sessLog)
        /\ \A i \in DOMAIN sessLog : sessLog[i].err = "none"

\* The sessions of a call are those of the texts 1, 2, ... in order, one for
\* each; one connection at most is open, that of the session of PartialText;
\* a call that ends without an error has run the session of every text.
OneSessionPerText ==
    /\ \A i \in DOMAIN sessLog : sessLog[i].k = i
    /\ Len(sessLog) <= nTexts
    /\ dials <= nTexts
    /\ dials = Len(sessLog) + (IF SessionOfThisCall /\ iPc \notin {"dial", "exited"}
                               THEN 1 ELSE 0)
    /\ connOpen => (SessionRunning /\ PartialText = dials)
    /\ (sPc = "done" /\ sentErrs = <<>> /\ calls = 1) =>
           (Len(sessLog) = nTexts /\ dials = nTexts)

\* Within one Stream call the sessions follow one another, one for each text,
\* and one connection at most is open (Spec).
SessionsInSequenceOfOneCall == []OneSessionPerText /\ [][SessionAfterSession]_vars

\* The connections that are open for the Communicate: those of the sessions of
\* its Stream goroutines.
OpenConnections == {g \in Racers : rPc[g] = "session"}

\* C37: Stream runs exactly one session per prepared text chunk, in order, and
\* starts the session of chunk i+1 only after the session of chunk i has ended
\* and closed its connection: at any time at most one connection is open for
\* one Communicate instance.
C37_OneConnectionPerInstance ==
    /\ \A g \in Racers : rDials[g] <= nTexts
    /\ \A g \in Racers : rPc[g] \in {"dial", "session"} => rDials[g] = rIdx[g]
    /\ Cardinality(OpenConnections) <= 1

\* The Stream call is over: both channels are closed and no error was sent.
StreamClosedBoth ==
    /\ sPc = "done"
    /\ outClosed
    /\ outErrClosed
    /\ sentErrs = <<>>
    /\ outErr = <<>>

\* StreamSync, StreamToWriter or Save has returned nil, with every chunk the
\* sessions sent.
HelperReturned ==
    /\ cPc = "returned"
    /\ cRet = "nil"
    /\ Len(sessLog) = nTexts

\* No goroutine of a served call sends an error, and its context is not done:
\* the error cases of the selects are never ready.
NoErrorInServedCall ==
    /\ inErr = <<>>
    /\ outErr = <<>>
    /\ sentErrs = <<>>
    /\ ~ctxDone

\* C38: if in every session the server eventually sends at least one valid
\* audio frame and then turn.end, and the consumer keeps receiving, then the
\* Stream call eventually closes both channels without any error, and
\* StreamSync, StreamToWriter and Save eventually return.
C38_ServedCallReturns ==
    /\ []NoErrorInServedCall
    /\ (calls = 1) ~> StreamClosedBoth
    /\ (calls = 1) ~> HelperReturned

\* The call over two texts has ended and its helper has returned nil with the
\* audio of both sessions.
C38_Witness ==
    /\ nTexts = 2
    /\ StreamClosedBoth
    /\ HelperReturned
    /\ \A i \in 1..2 : sessLog[i].how = "turnEnd" /\ sessLog[i].audio
    /\ Len(SelectSeq(cChunks, LAMBDA c : c.Type = "audio")) >= 2

\* A pass of the loop takes at least one byte, and no more than there are, off
\* the remaining text.
PassRemovesBytes ==
    (splitPc = "loop" /\ splitPc' = "loop") =>
        /\ Len(textLeft') < Len(textLeft)
        /\ Len(textLeft') >= 0
        /\ Len(cuts') = Len(cuts) + 1

\* With a budget of 0 or less the call returns no chunk, without a pass.
NoChunkWithoutBudget ==
    (byteLength <= 0 /\ splitPc = "done") => (result = <<>> /\ cuts = <<>>)

\* What the passes leave is what the call returns.
PassesAgreeWithCall ==
    splitPc = "done" => result = SplitTextByByteLength(text, byteLength).chunks

\* C39: SplitTextByByteLength terminates for every input and every budget:
\* each loop iteration removes at least one byte from the remaining text (a
\* split point of 0 or less is replaced by 1), and a budget L <= 0 returns no
\* chunk.
C39_SplitTerminates ==
    /\ (splitPc = "input") ~> (splitPc = "done")
    /\ [][PassRemovesBytes]_vars
    /\ []NoChunkWithoutBudget

\* "&&" with a budget of 1: the searches leave the split point 0, the pass cut
\* one byte off, and the call has returned.
C39_Witness ==
    /\ text = <<38, 38>>
    /\ byteLength = 1
    /\ SplitPointAsFound(text, byteLength) <= 0
    /\ cuts = <<1>>
    /\ splitPc = "done"

\* A call with the budget 0 has returned.
C39_NoBudget ==
    /\ byteLength = 0
    /\ text # <<>>
    /\ splitPc = "done"

\* The Stream goroutine g has started a session.
StartedSessions(g) == rDials[g] > 0

\* C40: if two Stream calls on the same Communicate instance run concurrently,
\* at most one of them starts sessions and emits chunks; the other delivers
\* ErrStreamAlreadyCalled, under every interleaving of their goroutines.
C40_OneStreamOnly ==
    /\ Cardinality({g \in Racers : StartedSessions(g)}) <= 1
    /\ \A g \in Racers :
           (rPc[g] \notin {"none", "check"} /\ \E h \in Racers \ {g} : StartedSessions(h))
               => rErrs[g] = <<"ErrStreamAlreadyCalled">>

(***************************************************************************)
(*   Claims about ValidateTTSConfig and NewCommunicate (ValidateSpec,      *)
(*   ConfigSpec)                                                           *)
(***************************************************************************)

RECURSIVE SplitOn(_, _)
\* The tokens of s between the bytes sep.
SplitOn(s, sep) ==
    LET at == IndexByte(s, sep)
    IN  IF at = -1 THEN <<s>>
        ELSE <<Slice(s, 0, at)>> \o SplitOn(Slice(s, at + 1, Len(s)), sep)

RECURSIVE JoinWith(_, _)
JoinWith(tokens, sep) ==
    IF tokens = <<>> THEN <<>>
    ELSE IF Len(tokens) = 1 THEN tokens[1]
    ELSE tokens[1] \o <<sep>> \o JoinWith(Tail(tokens), sep)

AllIn(s, class) == \A i \in DOMAIN s : s[i] \in class

\* v is a short voice name lang-REGION-NameNeural: two or more lower-case
\* letters, two or more upper-case letters, and a name that ends in Neural.
IsShortVoice(v) ==
    LET t == SplitOn(v, 45)
    IN  /\ Len(t) >= 3
        /\ Len(t[1]) >= 2 /\ AllIn(t[1], Lower)
        /\ Len(t[2]) >= 2 /\ AllIn(t[2], Upper)
        /\ LET name == JoinWith(SubSeq(t, 3, Len(t)), 45)
           IN  /\ HasSuffix(name, NeuralSuffix)
               /\ Len(name) > Len(NeuralSuffix)
               /\ NoNewline(name)

\* "Microsoft Server Speech Text to Speech Voice (locale, name)"
LongForm(locale, name) ==
    LongVoicePrefix \o locale \o <<44, 32>> \o name \o <<41>>

\* v is in the long form: the prefix, "(", a part, ",", a part, ")".
IsLongForm(v) ==
    \E j \in (Len(LongVoicePrefix) + 2)..(Len(v) - 2) :
        /\ HasPrefix(v, LongVoicePrefix)
        /\ v[j] = 44
        /\ v[Len(v)] = 41
        /\ NoNewline(SubSeq(v, Len(LongVoicePrefix) + 1, Len(v) - 1))

\* The long form of the short voice name v: the locale is lang-REGION, and
\* with it the first token of a name that holds a further '-'.
LongFormOfShort(v) ==
    LET t == SplitOn(v, 45)
    IN  IF Len(t) = 3
        THEN LongForm(JoinWith(SubSeq(t, 1, 2), 45), t[3])
        ELSE LongForm(JoinWith(SubSeq(t, 1, 3), 45),
                      JoinWith(SubSeq(t, 4, Len(t)), 45))

\* C21: ValidateTTSConfig rewrites a short voice name to the long form, only
\* the first token of a name with a further '-' moving into the region; it
\* leaves a voice in the long form as it is; and it fails with
\* ErrInvalidVoice exactly when the final voice is not in the long form.
C21_VoiceNormalised ==
    cfgPc = "validated" =>
        /\ IsShortVoice(newArgs.Voice)
               => ttsConfig.Voice = LongFormOfShort(newArgs.Voice)
        /\ IsLongForm(newArgs.Voice) => ttsConfig.Voice = newArgs.Voice
        /\ (cfgErr = "ErrInvalidVoice") <=> ~IsLongForm(ttsConfig.Voice)

\* "Microsoft Server Speech Text to Speech Voice (zh-CN-liaoning, XiaobeiNeural)"
LongXiaobei ==
    <<77, 105, 99, 114, 111, 115, 111, 102, 116, 32, 83, 101, 114, 118, 101,
      114, 32, 83, 112, 101, 101, 99, 104, 32, 84, 101, 120, 116, 32, 116,
      111, 32, 83, 112, 101, 101, 99, 104, 32, 86, 111, 105, 99, 101, 32, 40,
      122, 104, 45, 67, 78, 45, 108, 105, 97, 111, 110, 105, 110, 103, 44,
      32, 88, 105, 97, 111, 98, 101, 105, 78, 101, 117, 114, 97, 108, 41>>

\* zh-CN-liaoning-XiaobeiNeural was given and rewritten.
C21_Witness ==
    /\ cfgPc = "validated"
    /\ newArgs.Voice = VoiceXiaobei
    /\ ttsConfig.Voice = LongXiaobei
    /\ cfgErr = "nil"

\* "iu-Cans-CA", "iu-Latn-CA", "SiqiniqNeural", "TaqqiqNeural"
LocaleCans == <<105, 117, 45, 67, 97, 110, 115, 45, 67, 65>>
LocaleLatn == <<105, 117, 45, 76, 97, 116, 110, 45, 67, 65>>
NameSiqiniq == <<83, 105, 113, 105, 110, 105, 113, 78, 101, 117, 114, 97, 108>>
NameTaqqiq == <<84, 97, 113, 113, 105, 113, 78, 101, 117, 114, 97, 108>>

\* C22: the voices iu-Cans-CA-SiqiniqNeural and iu-Latn-CA-TaqqiqNeural,
\* whose locale has three parts, are accepted and rewritten to the long form
\* with the locale iu-Cans-CA (iu-Latn-CA) and the Neural name.
C22_ThreePartLocaleAccepted ==
    cfgPc = "validated" =>
        /\ newArgs.Voice = VoiceSiqiniq
               => /\ cfgErr # "ErrInvalidVoice"
                  /\ ttsConfig.Voice = LongForm(LocaleCans, NameSiqiniq)
        /\ newArgs.Voice = VoiceTaqqiq
               => /\ cfgErr # "ErrInvalidVoice"
                  /\ ttsConfig.Voice = LongForm(LocaleLatn, NameTaqqiq)

\* s is a sign, one or more digits, and the unit.
IsSignedAmount(s, unit) ==
    /\ Len(s) >= Len(unit) + 2
    /\ s[1] \in {43, 45}
    /\ HasSuffix(s, unit)
    /\ AllIn(SubSeq(s, 2, Len(s) - Len(unit)), Digits)

\* The error of the first invalid field of the arguments a, in the order
\* voice, rate, volume, pitch; "nil" when every field is valid.
FirstInvalidField(a) ==
    LET voice == IF a.voice = <<>> THEN DefaultVoice ELSE a.voice
    IN  IF ~(IsShortVoice(voice) \/ IsLongForm(voice)) THEN "ErrInvalidVoice"
        ELSE IF a.rate # NotGiven /\ ~IsSignedAmount(a.rate, <<37>>)
             THEN "ErrInvalidRate"
        ELSE IF a.volume # NotGiven /\ ~IsSignedAmount(a.volume, <<37>>)
             THEN "ErrInvalidVolume"
        ELSE IF a.pitch # NotGiven /\ ~IsSignedAmount(a.pitch, <<72, 122>>)
             THEN "ErrInvalidPitch"
        ELSE "nil"

\* C23: NewCommunicate returns no instance and the error of the first invalid
\* field (voice, rate, volume, pitch) when the configuration is invalid, a
\* rate or volume without its sign among them; and no connection is opened
\* for a configuration that was rejected.
C23_InvalidConfigRejected ==
    /\ cfgPc = "new" => (calls = 0 /\ dials = 0)
    /\ cfgPc = "returned" =>
           /\ cfgErr = FirstInvalidField(newArgs)
           /\ cfgErr # "nil" =>
                  /\ ttsConfig = NoConfig
                  /\ calls = 0 /\ dials = 0 /\ sPc = "none" /\ iPc = "none"

\* The rate "10%" and the volume "+%" were given with a valid voice: the
\* error is that of the rate.
C23_Witness ==
    /\ cfgPc = "returned"
    /\ newArgs.voice = VoiceEmma
    /\ newArgs.rate = <<49, 48, 37>>
    /\ newArgs.volume = <<43, 37>>
    /\ cfgErr = "ErrInvalidRate"
    /\ ttsConfig = NoConfig
    /\ dials = 0


=========================================================================
